---- MODULE Spec2Model ----
(***************************************************************************)
(* WebReaper: the crawl engine (src/src/webreaper.c), its URL index and    *)
(* acceptance policy, over the HTTP helpers of src/src/http/http.c and the *)
(* connection of src/src/http/http_conn.c.                                 *)
(*                                                                         *)
(* C strings are TLA+ strings in the state; every C string routine works   *)
(* on the string's bytes, looked up in the table Bytes.  A NULL pointer    *)
(* and a failed search are 0; pool entries are numbered from 1.            *)
(***************************************************************************)
EXTENDS Integers, Sequences, FiniteSets, TLC

(***************************************************************************)
(* The strings of the model and their bytes (ASCII).                       *)
(***************************************************************************)
Bytes ==
    "h" :> <<104>> @@
    "http://a/x/h" :> <<104, 116, 116, 112, 58, 47, 47, 97, 47, 120, 47, 104>> @@
    "/x/h" :> <<47, 120, 47, 104>> @@
    "file://" :> <<102, 105, 108, 101, 58, 47, 47>> @@
    "/r" :> <<47, 114>> @@
    "http://a/x" :> <<104, 116, 116, 112, 58, 47, 47, 97, 47, 120>> @@
    "http://a/y" :> <<104, 116, 116, 112, 58, 47, 47, 97, 47, 121>> @@
    "http://a/x/" :> <<104, 116, 116, 112, 58, 47, 47, 97, 47, 120, 47>> @@
    "http://b/x" :> <<104, 116, 116, 112, 58, 47, 47, 98, 47, 120>> @@
    "http://b/y" :> <<104, 116, 116, 112, 58, 47, 47, 98, 47, 121>> @@
    "http://a/x#f" :> <<104, 116, 116, 112, 58, 47, 47, 97, 47, 120, 35, 102>> @@
    "http://a/cgi-bin" :> <<104, 116, 116, 112, 58, 47, 47, 97, 47, 99, 103, 105, 45, 98, 105, 110>> @@
    "http://a/p.exe" :> <<104, 116, 116, 112, 58, 47, 47, 97, 47, 112, 46, 101, 120, 101>> @@
    "http://a/p.dll" :> <<104, 116, 116, 112, 58, 47, 47, 97, 47, 112, 46, 100, 108, 108>> @@
    "http://a/javascript:v" :> <<104, 116, 116, 112, 58, 47, 47, 97, 47, 106, 97, 118, 97, 115, 99, 114, 105, 112, 116, 58, 118>> @@
    "http://a/data:image" :> <<104, 116, 116, 112, 58, 47, 47, 97, 47, 100, 97, 116, 97, 58, 105, 109, 97, 103, 101>> @@
    "http://" :> <<104, 116, 116, 112, 58, 47, 47>> @@
    "http://a/lllllllllllllllllllllllllllllllllllllllllllllllllllllllllllllllllllllllllllllllllllllllllllllllllllllllllllllllllllllllllllllllllllllllllllllllllllllllllllllllllllllllllllllllllllllllllllllllllllllllllllllllllllllllllllllllllllllllllllllllllllllll" :> <<104, 116, 116, 112, 58, 47, 47, 97, 47, 108, 108, 108, 108, 108, 108, 108, 108, 108, 108, 108, 108, 108, 108, 108, 108, 108, 108, 108, 108, 108, 108, 108, 108, 108, 108, 108, 108, 108, 108, 108, 108, 108, 108, 108, 108, 108, 108, 108, 108, 108, 108, 108, 108, 108, 108, 108, 108, 108, 108, 108, 108, 108, 108, 108, 108, 108, 108, 108, 108, 108, 108, 108, 108, 108, 108, 108, 108, 108, 108, 108, 108, 108, 108, 108, 108, 108, 108, 108, 108, 108, 108, 108, 108, 108, 108, 108, 108, 108, 108, 108, 108, 108, 108, 108, 108, 108, 108, 108, 108, 108, 108, 108, 108, 108, 108, 108, 108, 108, 108, 108, 108, 108, 108, 108, 108, 108, 108, 108, 108, 108, 108, 108, 108, 108, 108, 108, 108, 108, 108, 108, 108, 108, 108, 108, 108, 108, 108, 108, 108, 108, 108, 108, 108, 108, 108, 108, 108, 108, 108, 108, 108, 108, 108, 108, 108, 108, 108, 108, 108, 108, 108, 108, 108, 108, 108, 108, 108, 108, 108, 108, 108, 108, 108, 108, 108, 108, 108, 108, 108, 108, 108, 108, 108, 108, 108, 108, 108, 108, 108, 108, 108, 108, 108, 108, 108, 108, 108, 108, 108, 108, 108, 108, 108, 108, 108, 108, 108, 108, 108, 108, 108, 108, 108, 108, 108, 108, 108, 108, 108, 108, 108, 108, 108, 108, 108, 108, 108, 108, 108, 108, 108, 108, 108, 108, 108, 108, 108, 108, 108, 108, 108, 108, 108, 108, 108, 108>> @@
    "http://b/lllllllllllllllllllllllllllllllllllllllllllllllllllllllllllllllllllllllllllllllllllllllllllllllllllllllllllllllllllllllllllllllllllllllllllllllllllllllllllllllllllllllllllllllllllllllllllllllllllllllllllllllllllllllllllllllllllllllllllllllllllllll" :> <<104, 116, 116, 112, 58, 47, 47, 98, 47, 108, 108, 108, 108, 108, 108, 108, 108, 108, 108, 108, 108, 108, 108, 108, 108, 108, 108, 108, 108, 108, 108, 108, 108, 108, 108, 108, 108, 108, 108, 108, 108, 108, 108, 108, 108, 108, 108, 108, 108, 108, 108, 108, 108, 108, 108, 108, 108, 108, 108, 108, 108, 108, 108, 108, 108, 108, 108, 108, 108, 108, 108, 108, 108, 108, 108, 108, 108, 108, 108, 108, 108, 108, 108, 108, 108, 108, 108, 108, 108, 108, 108, 108, 108, 108, 108, 108, 108, 108, 108, 108, 108, 108, 108, 108, 108, 108, 108, 108, 108, 108, 108, 108, 108, 108, 108, 108, 108, 108, 108, 108, 108, 108, 108, 108, 108, 108, 108, 108, 108, 108, 108, 108, 108, 108, 108, 108, 108, 108, 108, 108, 108, 108, 108, 108, 108, 108, 108, 108, 108, 108, 108, 108, 108, 108, 108, 108, 108, 108, 108, 108, 108, 108, 108, 108, 108, 108, 108, 108, 108, 108, 108, 108, 108, 108, 108, 108, 108, 108, 108, 108, 108, 108, 108, 108, 108, 108, 108, 108, 108, 108, 108, 108, 108, 108, 108, 108, 108, 108, 108, 108, 108, 108, 108, 108, 108, 108, 108, 108, 108, 108, 108, 108, 108, 108, 108, 108, 108, 108, 108, 108, 108, 108, 108, 108, 108, 108, 108, 108, 108, 108, 108, 108, 108, 108, 108, 108, 108, 108, 108, 108, 108, 108, 108, 108, 108, 108, 108, 108, 108, 108, 108, 108, 108, 108, 108, 108>> @@
    "a" :> <<97>> @@
    "/x" :> <<47, 120>> @@
    "/y" :> <<47, 121>> @@
    "b" :> <<98>> @@
    "/x#f" :> <<47, 120, 35, 102>> @@
    "/cgi-bin" :> <<47, 99, 103, 105, 45, 98, 105, 110>> @@
    "/p.exe" :> <<47, 112, 46, 101, 120, 101>> @@
    "/p.dll" :> <<47, 112, 46, 100, 108, 108>> @@
    "/javascript:v" :> <<47, 106, 97, 118, 97, 115, 99, 114, 105, 112, 116, 58, 118>> @@
    "/data:image" :> <<47, 100, 97, 116, 97, 58, 105, 109, 97, 103, 101>> @@
    "http:/" :> <<104, 116, 116, 112, 58, 47>> @@
    "" :> <<>> @@
    "/" :> <<47>> @@
    "/lllllllllllllllllllllllllllllllllllllllllllllllllllllllllllllllllllllllllllllllllllllllllllllllllllllllllllllllllllllllllllllllllllllllllllllllllllllllllllllllllllllllllllllllllllllllllllllllllllllllllllllllllllllllllllllllllllllllllllllllllllllll" :> <<47, 108, 108, 108, 108, 108, 108, 108, 108, 108, 108, 108, 108, 108, 108, 108, 108, 108, 108, 108, 108, 108, 108, 108, 108, 108, 108, 108, 108, 108, 108, 108, 108, 108, 108, 108, 108, 108, 108, 108, 108, 108, 108, 108, 108, 108, 108, 108, 108, 108, 108, 108, 108, 108, 108, 108, 108, 108, 108, 108, 108, 108, 108, 108, 108, 108, 108, 108, 108, 108, 108, 108, 108, 108, 108, 108, 108, 108, 108, 108, 108, 108, 108, 108, 108, 108, 108, 108, 108, 108, 108, 108, 108, 108, 108, 108, 108, 108, 108, 108, 108, 108, 108, 108, 108, 108, 108, 108, 108, 108, 108, 108, 108, 108, 108, 108, 108, 108, 108, 108, 108, 108, 108, 108, 108, 108, 108, 108, 108, 108, 108, 108, 108, 108, 108, 108, 108, 108, 108, 108, 108, 108, 108, 108, 108, 108, 108, 108, 108, 108, 108, 108, 108, 108, 108, 108, 108, 108, 108, 108, 108, 108, 108, 108, 108, 108, 108, 108, 108, 108, 108, 108, 108, 108, 108, 108, 108, 108, 108, 108, 108, 108, 108, 108, 108, 108, 108, 108, 108, 108, 108, 108, 108, 108, 108, 108, 108, 108, 108, 108, 108, 108, 108, 108, 108, 108, 108, 108, 108, 108, 108, 108, 108, 108, 108, 108, 108, 108, 108, 108, 108, 108, 108, 108, 108, 108, 108, 108, 108, 108, 108, 108, 108, 108, 108, 108, 108, 108, 108, 108, 108, 108, 108, 108, 108, 108, 108, 108>> @@
    "http:" :> <<104, 116, 116, 112, 58>> @@
    "https:" :> <<104, 116, 116, 112, 115, 58>> @@
    "https://" :> <<104, 116, 116, 112, 115, 58, 47, 47>> @@
    "javascript:" :> <<106, 97, 118, 97, 115, 99, 114, 105, 112, 116, 58>> @@
    "data:image" :> <<100, 97, 116, 97, 58, 105, 109, 97, 103, 101>> @@
    ".exe" :> <<46, 101, 120, 101>> @@
    ".dll" :> <<46, 100, 108, 108>> @@
    "cgi-" :> <<99, 103, 105, 45>> @@
    ".jpg" :> <<46, 106, 112, 103>> @@
    ".jpeg" :> <<46, 106, 112, 101, 103>> @@
    ".png" :> <<46, 112, 110, 103>> @@
    ".gif" :> <<46, 103, 105, 102>> @@
    ".js" :> <<46, 106, 115>> @@
    ".css" :> <<46, 99, 115, 115>> @@
    ".pdf" :> <<46, 112, 100, 102>> @@
    ".svg" :> <<46, 115, 118, 103>> @@
    ".ico" :> <<46, 105, 99, 111>>

Str(b) == CHOOSE s \in DOMAIN Bytes : Bytes[s] = b

(***************************************************************************)
(* The C string routines the program uses.                                 *)
(***************************************************************************)
strlen(s) == Len(Bytes[s])

\* The byte at 1-based position k; the terminating NUL from the end on.
ByteAt(b, k) == IF k <= Len(b) THEN b[k] ELSE 0

RECURSIVE CmpFrom(_, _, _, _)
CmpFrom(a, b, k, n) ==
    IF k > n THEN 0
    ELSE IF ByteAt(a, k) < ByteAt(b, k) THEN -1
    ELSE IF ByteAt(a, k) > ByteAt(b, k) THEN 1
    ELSE IF ByteAt(a, k) = 0 THEN 0
    ELSE CmpFrom(a, b, k + 1, n)

strncmp(s, t, n) == CmpFrom(Bytes[s], Bytes[t], 1, n)

strcmp(s, t) == CmpFrom(Bytes[s], Bytes[t], 1, Len(Bytes[s]) + 1)

\* Position of the first occurrence of needle in s, 0 when there is none.
strstr(s, needle) ==
    LET h == Bytes[s]
        n == Bytes[needle]
        at == {k \in 1..(Len(h) + 1 - Len(n)) : SubSeq(h, k, k + Len(n) - 1) = n}
    IN  IF at = {} THEN 0 ELSE CHOOSE k \in at : \A j \in at : k <= j

\* Position of the first byte c of b at or after position from, 0 when none.
memchr(b, from, c) ==
    LET at == {k \in from..Len(b) : b[k] = c}
    IN  IF at = {} THEN 0 ELSE CHOOSE k \in at : \A j \in at : k <= j

(***************************************************************************)
(* URL utilities.                                                          *)
(***************************************************************************)
httplen == 7
httpslen == 8

\* Bytes of url that http_parse_host and http_parse_page skip as the scheme.
SchemeSkip(url) ==
    IF strncmp("http:", url, 5) = 0 THEN httplen
    ELSE IF strncmp("https:", url, 6) = 0 THEN httpslen
    ELSE 0

http_parse_host(url) ==
    LET u == Bytes[url]
        p == SchemeSkip(url)
        e == memchr(u, p + 1, 47)
        endp == IF e = 0 THEN Len(u) + 1 ELSE e
    IN  Str(SubSeq(u, p + 1, endp - 1))

\* http_parse_page writes a NUL over a trailing '/' of its url argument.
StripSlash(url) ==
    LET u == Bytes[url]
    IN  IF Len(u) > 0 /\ u[Len(u)] = 47 THEN Str(SubSeq(u, 1, Len(u) - 1)) ELSE url

http_parse_page(url) ==
    LET s == StripSlash(url)
        u == Bytes[s]
        q == memchr(u, SchemeSkip(s) + 1, 47)
    IN  IF q = 0 THEN "/" ELSE Str(SubSeq(u, q, Len(u)))

\* utils_url.c is not part of the sources: these four follow the design
\* document (section 4.5).
make_full_url(h, url) ==
    LET scheme == IF h.usingSecure THEN "https://" ELSE "http://"
    IN  IF strncmp("http://", url, 7) = 0 \/ strncmp("https://", url, 8) = 0 THEN url
        ELSE IF strncmp("/", url, 1) = 0
             THEN Str(Bytes[scheme] \o Bytes[h.host] \o Bytes[url])
        ELSE Str(Bytes[scheme] \o Bytes[h.host] \o Bytes[h.page] \o Bytes["/"] \o Bytes[url])

make_local_url(url) == <<http_parse_host(url), http_parse_page(url)>>

local_archive_exists(fs, url) == make_local_url(url) \in fs

is_xdomain(h, url) == http_parse_host(url) # h.primary_host

no_url_files == <<".jpg", ".jpeg", ".png", ".gif", ".js", ".css", ".pdf", ".svg", ".ico">>

__url_parseable(url) == \A k \in DOMAIN no_url_files : strstr(url, no_url_files[k]) = 0

(***************************************************************************)
(* The object pool of a cache context and the URL index over it.  A cache  *)
(* context is [state, root, pool, nr_assigned]: pool[1..nr_assigned] are   *)
(* the objects handed out, in the order they were handed out.              *)
(***************************************************************************)
FILLING == "FILLING"
DRAINING == "DRAINING"

ZeroLink == [url |-> "", left |-> 0, right |-> 0, parent |-> 0, nr_requests |-> 0]

EmptyCache(st) == [state |-> st, root |-> 0, pool |-> <<>>, nr_assigned |-> 0]

\* cache.c is not part of the sources: the pool follows the design document
\* (section 4.2) and the way reap walks it (webreaper.c:1139-1140, 1305).
wr_cache_nr_used(c) == c.nr_assigned

\* A zeroed object is handed out at the end of the pool.
wr_cache_alloc(c) == [c EXCEPT !.pool = Append(@, ZeroLink), !.nr_assigned = @ + 1]

\* The pool is left empty.
wr_cache_clear_all(c) == [c EXCEPT !.nr_assigned = 0, !.pool = <<>>]

\* InsertWalk without the test for an equal entry (line 871).
RECURSIVE InsertWalk_NoDupTest(_, _, _)
InsertWalk_NoDupTest(c, url, nptr) ==
    LET n == c.pool[nptr]
        cmp == strcmp(url, n.url)
        a == wr_cache_alloc(c)
        new == a.nr_assigned
    IN  IF cmp < 0
        THEN IF n.left = 0
             THEN [a EXCEPT !.pool[nptr].left = new,
                            !.pool[new].url = url,
                            !.pool[new].parent = nptr]
             ELSE InsertWalk_NoDupTest(c, url, n.left)
        ELSE IF n.right = 0
             THEN [a EXCEPT !.pool[nptr].right = new,
                            !.pool[new].url = url,
                            !.pool[new].parent = nptr]
             ELSE InsertWalk_NoDupTest(c, url, n.right)

\* InsertWalk taking the object from the pool before the test for an equal
\* entry: a duplicate leaves an object that no entry points to.
RECURSIVE InsertWalk_AllocFirst(_, _, _)
InsertWalk_AllocFirst(c, url, nptr) ==
    LET n == c.pool[nptr]
        cmp == strcmp(url, n.url)
        a == wr_cache_alloc(c)
        new == a.nr_assigned
    IN  IF n.url # "" /\ cmp = 0 THEN a
        ELSE IF cmp < 0
             THEN IF n.left = 0
                  THEN [a EXCEPT !.pool[nptr].left = new,
                                 !.pool[new].url = url,
                                 !.pool[new].parent = nptr]
                  ELSE InsertWalk_AllocFirst(c, url, n.left)
        ELSE IF n.right = 0
             THEN [a EXCEPT !.pool[nptr].right = new,
                            !.pool[new].url = url,
                            !.pool[new].parent = nptr]
             ELSE InsertWalk_AllocFirst(c, url, n.right)

RECURSIVE InsertWalk(_, _, _)
InsertWalk(c, url, nptr) ==
    LET n == c.pool[nptr]
        cmp == strcmp(url, n.url)
        a == wr_cache_alloc(c)
        new == a.nr_assigned
    IN  IF n.url # "" /\ cmp = 0 THEN c
        ELSE IF cmp < 0
             THEN IF n.left = 0
                  THEN [a EXCEPT !.pool[nptr].left = new,
                                 !.pool[new].url = url,
                                 !.pool[new].parent = nptr]
                  ELSE InsertWalk(c, url, n.left)
        ELSE IF n.right = 0
             THEN [a EXCEPT !.pool[nptr].right = new,
                            !.pool[new].url = url,
                            !.pool[new].parent = nptr]
             ELSE InsertWalk(c, url, n.right)

__insert_link(fctx, url) ==
    IF fctx.root = 0
    THEN LET a == wr_cache_alloc(fctx)
             r == a.nr_assigned
         IN  [a EXCEPT !.root = r,
                       !.pool[r].url = url,
                       !.pool[r].left = 0,
                       !.pool[r].right = 0,
                       !.pool[r].parent = 0]
    ELSE InsertWalk(fctx, url, fctx.root)

RECURSIVE deconstruct_btree(_, _)
deconstruct_btree(root, pool) ==
    IF root = 0 THEN pool
    ELSE LET p1 == IF pool[root].left # 0
                   THEN deconstruct_btree(pool[root].left, pool) ELSE pool
             p2 == IF p1[root].right # 0
                   THEN deconstruct_btree(p1[root].right, p1) ELSE p1
         IN  [p2 EXCEPT ![root].left = 0, ![root].right = 0, ![root].parent = 0]

\* DrainingLookup descending to the wrong side (lines 800-807 swapped).
RECURSIVE DrainingLookup_WrongSide(_, _, _)
DrainingLookup_WrongSide(dctx, url, nptr) ==
    IF nptr = 0 THEN FALSE
    ELSE LET n == dctx.pool[nptr]
             cmp == strcmp(url, n.url)
         IN  IF url # "" /\ n.url # "" /\ cmp = 0 THEN TRUE
             ELSE IF cmp < 0 THEN DrainingLookup_WrongSide(dctx, url, n.right)
             ELSE DrainingLookup_WrongSide(dctx, url, n.left)

\* The DRAINING lookup of __url_acceptable: TRUE when an equal entry is found.
RECURSIVE DrainingLookup(_, _, _)
DrainingLookup(dctx, url, nptr) ==
    IF nptr = 0 THEN FALSE
    ELSE LET n == dctx.pool[nptr]
             cmp == strcmp(url, n.url)
         IN  IF url # "" /\ n.url # "" /\ cmp = 0 THEN TRUE
             ELSE IF cmp < 0 THEN DrainingLookup(dctx, url, n.left)
             ELSE DrainingLookup(dctx, url, n.right)

__disallowed_tokens == <<"javascript:", "data:image", ".exe", ".dll", "cgi-">>

UrlLenLimit == 256

\* __url_acceptable letting a URL of exactly 256 bytes through (line 736 with
\* > for >=).
__url_acceptable_OffByOne(h, fctx, dctx, url, fs, xd) ==
    /\ ~(strlen(url) > UrlLenLimit)
    /\ ~(/\ strncmp("http:", url, 5) = 0 \/ strncmp("https:", url, 6) = 0
         /\ strlen(url) < httplen \/ strlen(url) < httpslen)
    /\ ~local_archive_exists(fs, url)
    /\ memchr(Bytes[url], 1, 35) = 0
    /\ \A k \in DOMAIN __disallowed_tokens : strstr(url, __disallowed_tokens[k]) = 0
    /\ ~(is_xdomain(h, url) /\ ~xd)
    /\ ~DrainingLookup(dctx, url, dctx.root)

__url_acceptable(h, fctx, dctx, url, fs, xdomain) ==
    /\ ~(strlen(url) >= UrlLenLimit)
    /\ ~(/\ strncmp("http:", url, 5) = 0 \/ strncmp("https:", url, 6) = 0
         /\ strlen(url) < httplen \/ strlen(url) < httpslen)
    /\ ~local_archive_exists(fs, url)
    /\ memchr(Bytes[url], 1, 35) = 0
    /\ \A k \in DOMAIN __disallowed_tokens : strstr(url, __disallowed_tokens[k]) = 0
    /\ ~(is_xdomain(h, url) /\ ~xdomain)
    /\ ~DrainingLookup(dctx, url, dctx.root)

(***************************************************************************)
(* Status codes.  The HTTP codes have their protocol values; the four      *)
(* internal codes are set in http.h, which is not part of the sources:     *)
(* reap only tells them apart, so any four values no server status uses    *)
(* stand for them.                                                         *)
(***************************************************************************)
HTTP_OK == 200
HTTP_MOVED_PERMANENTLY == 301
HTTP_FOUND == 302
HTTP_SEE_OTHER == 303
HTTP_BAD_REQUEST == 400
HTTP_UNAUTHORISED == 401
HTTP_FORBIDDEN == 403
HTTP_NOT_FOUND == 404
HTTP_METHOD_NOT_ALLOWED == 405
HTTP_REQUEST_TIMEOUT == 408
HTTP_GONE == 410
HTTP_INTERNAL_ERROR == 500
HTTP_BAD_GATEWAY == 502
HTTP_SERVICE_UNAV == 503
HTTP_GATEWAY_TIMEOUT == 504
HTTP_ALREADY_EXISTS == 1000
HTTP_IS_XDOMAIN == 1001
FL_HTTP_SKIP_LINK == 1002
HTTP_OPERATION_TIMEOUT == 1003

\* What http_status_code_int can return for a response: atoi of whatever
\* stands between the first two spaces, or -1 when there are no two spaces.
Statuses ==
    {HTTP_OK, HTTP_MOVED_PERMANENTLY, HTTP_FOUND, HTTP_SEE_OTHER, HTTP_BAD_REQUEST,
     HTTP_UNAUTHORISED, HTTP_FORBIDDEN, HTTP_NOT_FOUND, HTTP_METHOD_NOT_ALLOWED,
     HTTP_REQUEST_TIMEOUT,
     HTTP_GONE, HTTP_INTERNAL_ERROR, HTTP_BAD_GATEWAY, HTTP_SERVICE_UNAV,
     HTTP_GATEWAY_TIMEOUT, HTTP_ALREADY_EXISTS, HTTP_IS_XDOMAIN, FL_HTTP_SKIP_LINK,
     HTTP_OPERATION_TIMEOUT, -1}

(***************************************************************************)
(* Bounds of the model.                                                    *)
(***************************************************************************)
MaxDepth == 3
MaxLinks == 3
MaxSeeds == 2
NR_LINKS_THRESHOLD == 1

\* The href/src values a page can carry, and the URLs the first page of a
\* crawl can have put into the first draining cache.
RawLinks ==
    {"http://a/x", "/x", "http://a/x/", "http://b/x", "http://a/x#f",
     "http://a/cgi-bin", "http://a/p.exe", "http://a/p.dll", "http://a/javascript:v",
     "http://a/data:image", "http://",
     "/lllllllllllllllllllllllllllllllllllllllllllllllllllllllllllllllllllllllllllllllllllllllllllllllllllllllllllllllllllllllllllllllllllllllllllllllllllllllllllllllllllllllllllllllllllllllllllllllllllllllllllllllllllllllllllllllllllllllllllllllllllllll"}

SeedUrls == {"http://a/x", "http://a/x/", "http://b/x"}

VARIABLES
    cache1, cache2,   \* the two cache contexts
    http,             \* struct http_t: hosts, current URL and page, socket
    xdomain,          \* option_set(OPT_ALLOW_XDOMAIN)
    pc,               \* where reap stands
    fill, nr_links, i, link,   \* reap's locals
    current_depth,
    files,            \* the local paths that exist under the archive root
    nparsed,          \* candidates parse_links has taken from the page so far
    fetched,          \* the URLs a GET request has been written for
    cur,              \* the URL reap is at: do_request's result (status_code
                      \* is reap's local) and what has been done for it
    inserted,         \* the URLs handed to __insert_link, in order, when the
                      \* index is exercised on its own (SpecInsert)
    conn,             \* connection_t of connection.c, with OPT_USE_TLS
    net,              \* the process around the connections: the connection
                      \* state last reported, pthread_once's control, the runs
                      \* of __init_openssl, and what the last call did
    rx,               \* __http_do_chunked_recv: the read buffer, the bytes
                      \* the server has sent that are not read yet, the
                      \* locals, and where the function stands
    hx,               \* one exchange seen from http.c: the read buffer, the
                      \* bytes not read yet, the header looked up, the body
                      \* mode taken and the write buffer of the next request
    page,             \* replace_with_local_urls: the page buffer, its
                      \* allocation, the locals and what has been replaced
    sink              \* the teardown of an index next to the status sink:
                      \* the nodes deconstruct_btree has still to reset, the
                      \* owner of the index's mutex, and what the sink read

vars == <<cache1, cache2, http, xdomain, pc, fill, nr_links, i, link,
          current_depth, files, nparsed, fetched, cur, inserted, conn, net, rx,
                   hx, page, sink>>

\* cur between two URLs.
NoEvent == [status_code |-> 0, head |-> "none", head_status |-> 0, get |-> "none",
            reconnects |-> 0,
            body |-> FALSE, parsed |-> FALSE, archive |-> "none"]

\* conn and net while the crawl engine or the index is looked at on its own.
NoConn == [host |-> "a", primary_host |-> "a", sock |-> -1, connected |-> FALSE,
           ssl |-> FALSE, use_tls |-> FALSE]

NoNet == [state |-> "DISCONNECTED", before |-> "DISCONNECTED", once |-> FALSE,
          http_inits |-> 0, conn_inits |-> 0, ops |-> 0, op |-> "none",
          ev |-> <<>>, upgraded |-> "no", impl |-> "none",
          alive |-> TRUE]

\* rx while no chunked response is being received.
NoRx == [buf |-> <<>>, wire |-> <<>>, pc |-> "none", p |-> 0, chunk_size |-> 0,
         save_size |-> 0, total |-> 0, chunk_start |-> 0, payload |-> <<>>]

\* hx while no response header is being looked at.
NoHx == [buf |-> <<>>, wire |-> <<>>, lines |-> <<>>, pc |-> "none",
         asked |-> "", whence |-> 0,
         hh |-> [found |-> FALSE, name |-> <<>>, value |-> <<>>],
         mode |-> "none", ret |-> 0, wbuf |-> <<>>, ev |-> <<>>]

\* sink while no teardown is looked at.
NoSink == [todo |-> <<>>, mutex |-> "free", seen |-> <<>>]

\* page while no page is being rewritten.
NoPage == [buf |-> <<>>, pc |-> "none", data |-> 0, size |-> 0, tail |-> 0,
           savep |-> 0, url_type_idx |-> 1, attrs |-> <<>>, input |-> <<>>]

(***************************************************************************)
(* The connection, as far as the crawl engine depends on it.               *)
(***************************************************************************)
ReconnectOutcomes == {"resolve_failed", "socket_failed", "connect_failed", "connected"}

\* http_reconnect going back to the primary host.
http_reconnect_ToPrimary(h, o) ==
    [h EXCEPT !.host = h.primary_host,
              !.sock = IF o \in {"resolve_failed", "socket_failed"} THEN -1 ELSE 3,
              !.connected = (o = "connected"),
              !.tls = (h.usingSecure /\ o = "connected")]

http_reconnect(h, o) ==
    [h EXCEPT !.sock = IF o \in {"resolve_failed", "socket_failed"} THEN -1 ELSE 3,
              !.connected = (o = "connected"),
              !.tls = (h.usingSecure /\ o = "connected")]

\* A request can reach the server only over a connected socket.
CanSend(h) == h.sock # -1 /\ h.connected

\* http_check_host is not part of the sources: it follows the design document
\* (section 4.6, step 4b).  reap ignores what it returns.
http_check_host(h, xd, o) ==
    LET want == http_parse_host(h.full_url)
    IN  IF want # h.host /\ xd
        THEN http_reconnect([h EXCEPT !.host = want], o)
        ELSE h

(***************************************************************************)
(* do_request: the set of its possible results for the URL in h.full_url.  *)
(* A result is [status, http, head, head_status, get, reconnects, body]:    *)
(* the status returned, the connection afterwards, how the HEAD went and   *)
(* the status it read, how the GET went, the reconnects made, and whether  *)
(* the read buffer holds a response body.                                  *)
(***************************************************************************)
GetResults(h, n) ==
    LET r == [status |-> HTTP_OK, http |-> h, head |-> "ok", head_status |-> HTTP_OK,
              get |-> "ok", reconnects |-> n, body |-> FALSE]
    IN  \* the results of neither call are looked at: a failed GET leaves the
        \* HEAD's response (status 200), or nothing readable, in the buffer
        {[r EXCEPT !.get = "send_failed", !.status = s] : s \in {HTTP_OK, -1}}
        \cup (IF CanSend(h)
              THEN {[r EXCEPT !.get = "recv_failed", !.status = s] : s \in {HTTP_OK, -1}}
                   \cup {[r EXCEPT !.status = s, !.body = TRUE] : s \in Statuses}
              ELSE {})

\* do_request without the test of line 1070: whatever status the HEAD
\* read, the archive is tested and the GET sent.
do_request_NoStatusTest(h, fs) ==
    LET r == [status |-> -1, http |-> h, head |-> "ok", head_status |-> 0,
              get |-> "none", reconnects |-> 0, body |-> FALSE]
    IN  {[r EXCEPT !.head = "send_failed"]}
        \cup (IF CanSend(h)
              THEN {[r EXCEPT !.head = "recv_failed"]}
                   \cup (IF local_archive_exists(fs, h.full_url)
                         THEN {[r EXCEPT !.status = HTTP_ALREADY_EXISTS,
                                         !.head_status = s] : s \in Statuses}
                         ELSE {[g EXCEPT !.head_status = s] :
                                  s \in Statuses,
                                  g \in GetResults(h, 0)
                                         \cup UNION {GetResults(http_reconnect(h, o), 1) :
                                                       o \in ReconnectOutcomes}})
              ELSE {})

\* do_request without the test of line 1073.
do_request_NoArchiveTest(h, fs) ==
    LET r == [status |-> -1, http |-> h, head |-> "ok", head_status |-> 0,
              get |-> "none", reconnects |-> 0, body |-> FALSE]
    IN  {[r EXCEPT !.head = "send_failed"]}
        \cup (IF CanSend(h)
              THEN {[r EXCEPT !.head = "recv_failed"]}
                   \cup {[r EXCEPT !.status = s, !.head_status = s] : s \in Statuses \ {HTTP_OK}}
                   \cup GetResults(h, 0)
                   \cup UNION {GetResults(http_reconnect(h, o), 1) :
                                 o \in ReconnectOutcomes}
              ELSE {})

do_request(h, fs) ==
    LET r == [status |-> -1, http |-> h, head |-> "ok", head_status |-> 0,
              get |-> "none", reconnects |-> 0, body |-> FALSE]
    IN  {[r EXCEPT !.head = "send_failed"]}
        \cup (IF CanSend(h)
              THEN {[r EXCEPT !.head = "recv_failed"]}
                   \cup {[r EXCEPT !.status = s, !.head_status = s] : s \in Statuses \ {HTTP_OK}}
                   \cup (IF local_archive_exists(fs, h.full_url)
                         THEN {[r EXCEPT !.status = HTTP_ALREADY_EXISTS, !.head_status = HTTP_OK]}
                         ELSE GetResults(h, 0)
                              \cup UNION {GetResults(http_reconnect(h, o), 1) :
                                            o \in ReconnectOutcomes})
              ELSE {})

\* archive_page without the test of open()'s result (line 675).
archive_page_OpenUnchecked(h, fs, dirs_ok, open_ok) ==
    LET path == make_local_url(h.full_url)
    IN  IF ~dirs_ok THEN [files |-> fs, how |-> "dirs_failed"]
        ELSE IF path \in fs THEN [files |-> fs, how |-> "exists"]
        ELSE IF ~open_ok THEN [files |-> fs, how |-> "created"]
        ELSE [files |-> fs \cup {path}, how |-> "created"]

(***************************************************************************)
(* archive_page: the files afterwards and how it ended.  dirs_ok and       *)
(* open_ok are what check_local_dirs and open() answer.                    *)
(***************************************************************************)
archive_page(h, fs, dirs_ok, open_ok) ==
    LET path == make_local_url(h.full_url)
    IN  IF ~dirs_ok THEN [files |-> fs, how |-> "dirs_failed"]
        ELSE IF path \in fs THEN [files |-> fs, how |-> "exists"]
        ELSE IF ~open_ok THEN [files |-> fs, how |-> "open_failed"]
        ELSE [files |-> fs \cup {path}, how |-> "created"]

(***************************************************************************)
(* reap.                                                                   *)
(***************************************************************************)
RECURSIVE InsertAll(_, _)
InsertAll(c, urls) ==
    IF urls = <<>> THEN c ELSE InsertAll(__insert_link(c, Head(urls)), Tail(urls))

\* main.c is not part of the sources.  A crawl enters reap with the links of
\* its first page in the draining cache, the other cache empty and filling,
\* the connection open to the primary host, and depth 0.
Init ==
    /\ xdomain \in BOOLEAN
    /\ http = [host |-> "a", primary_host |-> "a", full_url |-> "", page |-> "",
               usingSecure |-> FALSE, sock |-> 3, connected |-> TRUE, tls |-> FALSE]
    /\ \E n \in 1..MaxSeeds : \E s \in [1..n -> SeedUrls] :
          /\ \A j, k \in 1..n : j # k => s[j] # s[k]
          /\ \A j \in 1..n : is_xdomain(http, s[j]) => xdomain
          /\ cache1 = InsertAll(EmptyCache(DRAINING), s)
    /\ cache2 = EmptyCache(FILLING)
    /\ pc = "level"
    /\ fill = 1
    /\ nr_links = 0
    /\ i = 0
    /\ link = 0
    /\ current_depth = 0
    /\ files = {}
    /\ nparsed = 0
    /\ fetched = {}
    /\ cur = NoEvent
    /\ inserted = <<>>
    /\ conn = NoConn
    /\ net = NoNet
    /\ rx = NoRx
    /\ hx = NoHx
    /\ page = NoPage
    /\ sink = NoSink

\* Lines 1145-1152 and 1169-1176: the index of the cache about to be filled
\* is taken apart and its pool cleared.
Teardown(c) ==
    LET d == [c EXCEPT !.pool = deconstruct_btree(c.root, c.pool)]
        e == wr_cache_clear_all(d)
        f == IF e.nr_assigned > 0 THEN [e EXCEPT !.nr_assigned = 0] ELSE e
    IN  [f EXCEPT !.root = 0]

\* The head of the while loop, down to the test of nr_links.
LevelStart ==
    /\ pc = "level"
    /\ fill' = 1
    /\ IF cache1.state = DRAINING
       THEN /\ nr_links' = wr_cache_nr_used(cache1)
            /\ cache2' = Teardown(cache2)
            /\ cache1' = cache1
       ELSE /\ nr_links' = wr_cache_nr_used(cache2)
            /\ cache1' = Teardown(cache1)
            /\ cache2' = cache2
    /\ link' = 1
    /\ i' = 0
    /\ pc' = IF nr_links' = 0 THEN "done" ELSE "request"
    /\ UNCHANGED <<http, xdomain, current_depth, files, nparsed, fetched, cur,
                   inserted, conn, net, rx,
                   hx, page, sink>>

Draining == IF cache1.state = DRAINING THEN cache1 ELSE cache2

Filling == IF cache1.state = DRAINING THEN cache2 ELSE cache1

\* The head of the for loop through do_request: an entry with an empty URL is
\* stepped over; otherwise the URL is copied out of the draining pool, its
\* page parsed, the host checked and the request made.
Request ==
    /\ pc = "request"
    /\ LET url == Draining.pool[link].url
       IN  IF strlen(url) = 0
           THEN /\ link' = link + 1
                /\ i' = i + 1
                /\ pc' = IF i + 1 < nr_links THEN "request" ELSE "flip1"
                /\ UNCHANGED <<http, cur, fetched>>
           ELSE /\ \E o \in ReconnectOutcomes :
                   LET h0 == [http EXCEPT !.full_url = StripSlash(url),
                                          !.page = http_parse_page(url)]
                       h1 == http_check_host(h0, xdomain, o)
                   IN  \E r \in do_request(h1, files) :
                          /\ http' = r.http
                          /\ cur' = [NoEvent EXCEPT !.status_code = r.status,
                                                    !.head = r.head,
                                                    !.head_status = r.head_status,
                                                    !.get = r.get,
                                                    !.body = r.body,
                                                    !.reconnects = r.reconnects]
                          /\ fetched' = IF r.get \in {"ok", "recv_failed"}
                                        THEN fetched \cup {h1.full_url} ELSE fetched
                /\ pc' = "switch"
                /\ UNCHANGED <<link, i>>
    /\ nparsed' = 0
    /\ UNCHANGED <<cache1, cache2, xdomain, fill, nr_links, current_depth, files,
                   inserted, conn, net, rx,
                   hx, page, sink>>

ArchiveStatuses == {HTTP_OK, HTTP_GONE, HTTP_NOT_FOUND}

ReconnectStatuses ==
    {HTTP_BAD_REQUEST, HTTP_METHOD_NOT_ALLOWED, HTTP_FORBIDDEN, HTTP_INTERNAL_ERROR,
     HTTP_BAD_GATEWAY, HTTP_SERVICE_UNAV, HTTP_GATEWAY_TIMEOUT, HTTP_OPERATION_TIMEOUT}

SkipStatuses == {HTTP_IS_XDOMAIN, HTTP_ALREADY_EXISTS, FL_HTTP_SKIP_LINK}

\* StatusPolicy with the cases of lines 1228-1250 neither reconnecting nor
\* skipping (a break for the goto next).
StatusPolicy_ErrorFallsThrough(s) ==
    IF s < 0 THEN "failed"
    ELSE IF s \in ArchiveStatuses THEN "archive"
    ELSE IF s \in ReconnectStatuses THEN "archive"
    ELSE IF s \in SkipStatuses THEN "next"
    ELSE "failed"

\* StatusPolicy with a default case that skips the URL.
StatusPolicy_DefaultSkips(s) ==
    IF s < 0 THEN "failed"
    ELSE IF s \in ArchiveStatuses THEN "archive"
    ELSE IF s \in ReconnectStatuses THEN "reconnect"
    ELSE "next"

\* Where the test of line 1217 and the switch on the status code lead:
\* "archive" (break), "reconnect" (the cases that end in http_reconnect and
\* goto next), "next" (goto next) or "failed" (goto fail).
StatusPolicy(s) ==
    IF s < 0 THEN "failed"
    ELSE IF s \in ArchiveStatuses THEN "archive"
    ELSE IF s \in ReconnectStatuses THEN "reconnect"
    ELSE IF s \in SkipStatuses THEN "next"
    ELSE "failed"

BumpRequests(c, n) == [c EXCEPT !.pool[n].nr_requests = @ + 1]

\* Lines 1217-1273: the status code is tested and dispatched on.
Dispatch ==
    /\ pc = "switch"
    /\ LET policy == StatusPolicy(cur.status_code)
       IN  /\ IF cur.status_code < 0
              THEN UNCHANGED <<cache1, cache2>>
              ELSE IF cache1.state = DRAINING
                   THEN cache1' = BumpRequests(cache1, link) /\ cache2' = cache2
                   ELSE cache2' = BumpRequests(cache2, link) /\ cache1' = cache1
           /\ pc' = IF policy = "archive"
                    THEN IF fill = 1 /\ __url_parseable(http.full_url)
                         THEN "parse" ELSE "archive"
                    ELSE policy
    /\ UNCHANGED <<http, xdomain, fill, nr_links, i, link, current_depth, files,
                   nparsed, fetched, cur, inserted, conn, net, rx,
                   hx, page, sink>>

\* The body of the cases that reconnect: the buffers are cleared, the host
\* restored if it is empty (the timeout case), and http_reconnect called.
Reconnect ==
    /\ pc = "reconnect"
    /\ \E o \in ReconnectOutcomes :
       LET h == IF cur.status_code = HTTP_OPERATION_TIMEOUT /\ http.host = ""
                THEN [http EXCEPT !.host = http.primary_host] ELSE http
       IN  http' = http_reconnect(h, o)
    /\ cur' = [cur EXCEPT !.reconnects = @ + 1, !.body = FALSE]
    /\ pc' = "next"
    /\ UNCHANGED <<cache1, cache2, xdomain, fill, nr_links, i, link, current_depth,
                   files, nparsed, fetched, inserted, conn, net, rx,
                   hx, page, sink>>

\* One pass of the while loop of parse_links that finds a candidate: the
\* value is made a full URL, tested, and inserted when acceptable.
ParseLink ==
    /\ pc = "parse"
    /\ cur.body
    /\ nparsed < MaxLinks
    /\ \E raw \in RawLinks :
       LET full == make_full_url(http, raw)
           ok == __url_acceptable(http, Filling, Draining, full, files, xdomain)
       IN  IF cache1.state = DRAINING
           THEN /\ cache2' = IF ok THEN __insert_link(cache2, full) ELSE cache2
                /\ cache1' = cache1
           ELSE /\ cache1' = IF ok THEN __insert_link(cache1, full) ELSE cache1
                /\ cache2' = cache2
    /\ nparsed' = nparsed + 1
    /\ UNCHANGED <<http, xdomain, pc, fill, nr_links, i, link, current_depth, files,
                   fetched, cur, inserted, conn, net, rx,
                   hx, page, sink>>

\* ParseDone without the test of lines 1291-1298.
ParseDone_NoThreshold ==
    /\ pc = "parse"
    /\ fill' = fill
    /\ cur' = [cur EXCEPT !.parsed = TRUE]
    /\ pc' = "archive"
    /\ UNCHANGED <<cache1, cache2, http, xdomain, nr_links, i, link, current_depth,
                   files, nparsed, fetched, inserted, conn, net, rx,
                   hx, page, sink>>

\* parse_links returns; lines 1281-1298 compare the fill with the threshold.
ParseDone ==
    /\ pc = "parse"
    /\ fill' = IF wr_cache_nr_used(Filling) >= NR_LINKS_THRESHOLD THEN 0 ELSE fill
    /\ cur' = [cur EXCEPT !.parsed = TRUE]
    /\ pc' = "archive"
    /\ UNCHANGED <<cache1, cache2, http, xdomain, nr_links, i, link, current_depth,
                   files, nparsed, fetched, inserted, conn, net, rx,
                   hx, page, sink>>

\* Line 1302: archive_page.
Archive ==
    /\ pc = "archive"
    /\ \E dirs_ok, open_ok \in BOOLEAN :
       LET a == archive_page(http, files, dirs_ok, open_ok)
       IN  /\ files' = a.files
           /\ cur' = [cur EXCEPT !.archive = a.how]
    /\ pc' = "next"
    /\ UNCHANGED <<cache1, cache2, http, xdomain, fill, nr_links, i, link,
                   current_depth, nparsed, fetched, inserted, conn, net, rx,
                   hx, page, sink>>

\* NextLink without the ++link of line 1305.
NextLink_NoAdvance ==
    /\ pc = "next"
    /\ link' = link
    /\ i' = i + 1
    /\ pc' = IF i + 1 < nr_links THEN "request" ELSE "flip1"
    /\ cur' = NoEvent
    /\ UNCHANGED <<cache1, cache2, http, xdomain, fill, nr_links, current_depth, files,
                   nparsed, fetched, inserted, conn, net, rx,
                   hx, page, sink>>

\* The label next: and the step of the for loop.
NextLink ==
    /\ pc = "next"
    /\ link' = link + 1
    /\ i' = i + 1
    /\ pc' = IF i + 1 < nr_links THEN "request" ELSE "flip1"
    /\ cur' = NoEvent
    /\ UNCHANGED <<cache1, cache2, http, xdomain, fill, nr_links, current_depth, files,
                   nparsed, fetched, inserted, conn, net, rx,
                   hx, page, sink>>

FlipState(st) == IF st = FILLING THEN DRAINING ELSE FILLING

\* Flip1 without the count of line 1318.
Flip1_NoCount ==
    /\ pc = "flip1"
    /\ cache1' = [cache1 EXCEPT !.state = FlipState(@)]
    /\ pc' = "flip2"
    /\ UNCHANGED <<cache2, http, xdomain, fill, nr_links, i, link, current_depth,
                   files, nparsed, fetched, cur, inserted, conn, net, rx,
                   hx, page, sink>>

\* Lines 1318-1323: the depth is counted and the state of cache1 flipped.
Flip1 ==
    /\ pc = "flip1"
    /\ current_depth' = current_depth + 1
    /\ cache1' = [cache1 EXCEPT !.state = FlipState(@)]
    /\ pc' = "flip2"
    /\ UNCHANGED <<cache2, http, xdomain, fill, nr_links, i, link, files, nparsed,
                   fetched, cur, inserted, conn, net, rx,
                   hx, page, sink>>

\* Lines 1325-1328: the state of cache2 is flipped.
Flip2 ==
    /\ pc = "flip2"
    /\ cache2' = [cache2 EXCEPT !.state = FlipState(@)]
    /\ pc' = "depth"
    /\ UNCHANGED <<cache1, http, xdomain, fill, nr_links, i, link, current_depth,
                   files, nparsed, fetched, cur, inserted, conn, net, rx,
                   hx, page, sink>>

\* Lines 1333-1337: the test of the crawl depth.
DepthCheck ==
    /\ pc = "depth"
    /\ pc' = IF current_depth >= MaxDepth THEN "done" ELSE "level"
    /\ UNCHANGED <<cache1, cache2, http, xdomain, fill, nr_links, i, link,
                   current_depth, files, nparsed, fetched, cur, inserted, conn, net, rx,
                   hx, page, sink>>

Next ==
    \/ LevelStart
    \/ Request
    \/ Dispatch
    \/ Reconnect
    \/ ParseLink
    \/ ParseDone
    \/ Archive
    \/ NextLink
    \/ Flip1
    \/ Flip2
    \/ DepthCheck

Spec == Init /\ [][Next]_vars

(***************************************************************************)
(* The index on its own: __insert_link called on an initially empty index  *)
(* with URLs of any kind.  No caller hands over an empty URL (parse_links  *)
(* steps over an empty value and make_full_url only lengthens one).        *)
(***************************************************************************)
MaxInserts == 3

InsertUrls ==
    {"http://a/x", "http://a/x/", "http://a/x#f", "http://a/y", "http://b/x",
     "http://", "/x", "a"}

InitInsert ==
    /\ cache1 = EmptyCache(FILLING)
    /\ cache2 = EmptyCache(DRAINING)
    /\ xdomain = FALSE
    /\ http = [host |-> "a", primary_host |-> "a", full_url |-> "", page |-> "",
               usingSecure |-> FALSE, sock |-> 3, connected |-> TRUE, tls |-> FALSE]
    /\ pc = "insert"
    /\ fill = 1
    /\ nr_links = 0
    /\ i = 0
    /\ link = 0
    /\ current_depth = 0
    /\ files = {}
    /\ nparsed = 0
    /\ fetched = {}
    /\ cur = NoEvent
    /\ inserted = <<>>
    /\ conn = NoConn
    /\ net = NoNet
    /\ rx = NoRx
    /\ hx = NoHx
    /\ page = NoPage
    /\ sink = NoSink

Insert ==
    /\ pc = "insert"
    /\ Len(inserted) < MaxInserts
    /\ \E url \in InsertUrls :
          /\ cache1' = __insert_link(cache1, url)
          /\ inserted' = Append(inserted, url)
    /\ UNCHANGED <<cache2, http, xdomain, pc, fill, nr_links, i, link, current_depth,
                   files, nparsed, fetched, cur, conn, net, rx,
                   hx, page, sink>>

SpecInsert == InitInsert /\ [][Insert]_vars

(***************************************************************************)
(* The two connection layers on their own: http_conn.c (struct http_t, the *)
(* variable http) and connection.c (connection_t, the variable conn).  A   *)
(* call is one step; o is what getaddrinfo, socket and connect answer.     *)
(* net.ev lists what the call did, in order: the host resolved, the        *)
(* sockets closed and opened, the port connected to, the TLS calls, the    *)
(* writes of a request and the states given to update_connection_state.    *)
(***************************************************************************)
MaxOps == 4

HTTP_PORT == 80
HTTPS_PORT == 443

Hosts == {"a", "b"}

\* A call of update_connection_state.
Report(st) == <<"report", st>>

\* The tail shared by http_connect (lines 99-143) and http_reconnect (lines
\* 214-252) once the host is resolved; init is whether __init_openssl runs.
HttpOpenTail(h, o, init) ==
    <<Report("CONNECTING"), <<"socket">>>>
    \o (IF o = "socket_failed" THEN <<Report("DISCONNECTED")>>
        ELSE <<<<"connect", IF h.usingSecure THEN HTTPS_PORT ELSE HTTP_PORT>>>>
             \o (IF o = "connect_failed" THEN <<Report("DISCONNECTED")>>
                 ELSE (IF h.usingSecure
                       THEN (IF init THEN <<<<"__init_openssl">>>> ELSE <<>>)
                            \o <<<<"SSL_new">>, <<"SSL_set_fd">>>>
                       ELSE <<>>)
                      \o <<Report("CONNECTED")>>))

\* http_connect: a failed getaddrinfo leaves everything as it was.
http_connect(h, o) ==
    IF o = "resolve_failed" THEN h
    ELSE [h EXCEPT !.sock = IF o = "socket_failed" THEN -1 ELSE 3,
                   !.connected = (o = "connected"),
                   !.tls = IF h.usingSecure /\ o = "connected" THEN TRUE ELSE @]

http_connect_ev(h, o, once) ==
    <<<<"resolve", h.host>>>>
    \o (IF o = "resolve_failed" THEN <<>> ELSE HttpOpenTail(h, o, ~once))

http_disconnect(h) ==
    [h EXCEPT !.sock = -1, !.connected = FALSE,
              !.tls = IF h.usingSecure THEN FALSE ELSE @]

http_disconnect_ev(h) ==
    <<<<"close">>, Report("DISCONNECTED")>>
    \o (IF h.usingSecure THEN <<<<"SSL_free">>>> ELSE <<>>)

http_reconnect_ev(h, o) ==
    <<<<"close">>>>
    \o (IF h.usingSecure THEN <<<<"SSL_free">>>> ELSE <<>>)
    \o <<<<"resolve", h.host>>>>
    \o (IF o = "resolve_failed" THEN <<>> ELSE HttpOpenTail(h, o, FALSE))

\* HTTP_upgrade_to_TLS without the assignment of line 265.
HTTP_upgrade_to_TLS_FlagNotSet(h, o) ==
    http_connect(http_disconnect(h), o)

HTTP_upgrade_to_TLS(h, o) ==
    http_connect([http_disconnect(h) EXCEPT !.usingSecure = TRUE], o)

HTTP_upgrade_to_TLS_ev(h, o, once) ==
    http_disconnect_ev(h)
    \o http_connect_ev([http_disconnect(h) EXCEPT !.usingSecure = TRUE], o, once)

\* The tail shared by open_connection (lines 108-141) and reconnect (lines
\* 214-246) once the host is resolved.
ConnOpenTail(c, o, init) ==
    <<<<"socket">>>>
    \o (IF o = "socket_failed" THEN <<>>
        ELSE <<<<"connect", IF c.use_tls THEN HTTPS_PORT ELSE HTTP_PORT>>>>
             \o (IF o = "connected" /\ c.use_tls
                 THEN (IF init THEN <<<<"__init_openssl">>>> ELSE <<>>)
                      \o <<<<"SSL_new">>, <<"SSL_set_fd">>>>
                 ELSE <<>>))

open_connection(c, o) ==
    IF o = "resolve_failed" THEN c
    ELSE [c EXCEPT !.sock = IF o = "socket_failed" THEN -1 ELSE 3,
                   !.connected = (o = "connected"),
                   !.ssl = IF c.use_tls /\ o = "connected" THEN TRUE ELSE @]

open_connection_ev(c, o) ==
    <<<<"resolve", c.host>>>>
    \o (IF o = "resolve_failed" THEN <<>> ELSE ConnOpenTail(c, o, TRUE))

close_connection(c) ==
    [c EXCEPT !.sock = -1, !.connected = FALSE,
              !.ssl = IF c.use_tls THEN FALSE ELSE @]

close_connection_ev(c) ==
    <<<<"close">>>> \o (IF c.use_tls THEN <<<<"SSL_free">>>> ELSE <<>>)

reconnect(c, o) ==
    LET d == [c EXCEPT !.sock = -1, !.connected = FALSE, !.host = c.primary_host,
                       !.ssl = IF c.use_tls THEN FALSE ELSE @]
    IN  IF o = "resolve_failed" THEN d
        ELSE [d EXCEPT !.sock = IF o = "socket_failed" THEN -1 ELSE 3,
                       !.connected = (o = "connected"),
                       !.ssl = IF c.use_tls /\ o = "connected" THEN TRUE ELSE @]

reconnect_ev(c, o) ==
    <<<<"close">>>>
    \o (IF c.use_tls THEN <<<<"SSL_free">>>> ELSE <<>>)
    \o <<<<"resolve", c.primary_host>>>>
    \o (IF o = "resolve_failed" THEN <<>> ELSE ConnOpenTail(c, o, FALSE))

conn_switch_to_tls(c, o) ==
    open_connection([close_connection(c) EXCEPT !.use_tls = TRUE], o)

conn_switch_to_tls_ev(c, o) ==
    close_connection_ev(c)
    \o open_connection_ev([close_connection(c) EXCEPT !.use_tls = TRUE], o)

(***************************************************************************)
(* http_send_request: the write of a request.  With the secure flag set it *)
(* goes through the TLS session; without a session (SSL_write on a NULL    *)
(* session) the write fails or the process dies.  Otherwise it goes to the *)
(* socket.  The result is the set of event lists it can leave.             *)
(***************************************************************************)
http_send_request(secure, session, sock, connected) ==
    IF secure
    THEN IF session THEN {<<<<"write", "tls">>>>}
         ELSE {<<<<"write", "failed">>>>, <<<<"crash">>>>}
    ELSE IF sock # -1 /\ connected THEN {<<<<"write", "socket">>>>}
         ELSE {<<<<"write", "failed">>>>}

\* The reports among the events of a call, and the state reported last.
Reports(ev) == SelectSeq(ev, LAMBDA e : e[1] = "report")

LastReport(before, ev) ==
    IF Reports(ev) = <<>> THEN before ELSE Reports(ev)[Len(Reports(ev))][2]

Count(ev, what) == Len(SelectSeq(ev, LAMBDA e : e[1] = what))

\* net after a call op that did ev.
Did(op, ev) ==
    [net EXCEPT !.op = op, !.ev = ev, !.ops = @ + 1,
                !.before = net.state,
                !.state = LastReport(net.state, ev),
                !.alive = Count(ev, "crash") = 0]

CanCall(impl) == net.impl = impl /\ net.alive /\ net.ops < MaxOps

crawlvars == <<cache1, cache2, xdomain, pc, fill, nr_links, i, link, current_depth,
               files, nparsed, fetched, cur, inserted>>

\* A process uses one of the two layers; the secure flag is what --tls says
\* and nothing is connected yet.
InitConn ==
    /\ cache1 = EmptyCache(DRAINING)
    /\ cache2 = EmptyCache(FILLING)
    /\ xdomain = FALSE
    /\ pc = "conn"
    /\ fill = 1
    /\ nr_links = 0
    /\ i = 0
    /\ link = 0
    /\ current_depth = 0
    /\ files = {}
    /\ nparsed = 0
    /\ fetched = {}
    /\ cur = NoEvent
    /\ inserted = <<>>
    /\ \E tls \in BOOLEAN, impl \in {"http_conn", "connection"} :
          /\ http = [host |-> "a", primary_host |-> "a", full_url |-> "",
                     page |-> "", usingSecure |-> tls /\ impl = "http_conn",
                     sock |-> -1, connected |-> FALSE, tls |-> FALSE]
          /\ conn = [NoConn EXCEPT !.use_tls = tls /\ impl = "connection"]
          /\ net = [NoNet EXCEPT !.impl = impl]
    /\ rx = NoRx
    /\ hx = NoHx
    /\ page = NoPage
    /\ sink = NoSink

HttpConnect ==
    /\ CanCall("http_conn")
    /\ \E o \in ReconnectOutcomes :
          /\ http' = http_connect(http, o)
          /\ net' = [Did("http_connect", http_connect_ev(http, o, net.once))
                       EXCEPT !.once = @ \/ (http.usingSecure /\ o = "connected"),
                              !.http_inits =
                                  @ + Count(http_connect_ev(http, o, net.once),
                                            "__init_openssl")]
    /\ UNCHANGED <<crawlvars, hx, page, sink, conn, rx>>

HttpDisconnect ==
    /\ CanCall("http_conn")
    /\ http' = http_disconnect(http)
    /\ net' = Did("http_disconnect", http_disconnect_ev(http))
    /\ UNCHANGED <<crawlvars, hx, page, sink, conn, rx>>

HttpReconnect ==
    /\ CanCall("http_conn")
    /\ \E o \in ReconnectOutcomes :
          /\ http' = http_reconnect(http, o)
          /\ net' = Did("http_reconnect", http_reconnect_ev(http, o))
    /\ UNCHANGED <<crawlvars, hx, page, sink, conn, rx>>

HttpUpgrade ==
    /\ CanCall("http_conn")
    /\ \E o \in ReconnectOutcomes :
          /\ http' = HTTP_upgrade_to_TLS(http, o)
          /\ net' = [Did("HTTP_upgrade_to_TLS",
                         HTTP_upgrade_to_TLS_ev(http, o, net.once))
                       EXCEPT !.once = @ \/ (o = "connected"),
                              !.http_inits =
                                  @ + Count(HTTP_upgrade_to_TLS_ev(http, o, net.once),
                                            "__init_openssl"),
                              !.upgraded = IF o = "connected" THEN "opened" ELSE "failed"]
    /\ UNCHANGED <<crawlvars, hx, page, sink, conn, rx>>

HttpSend ==
    /\ CanCall("http_conn")
    /\ \E ev \in http_send_request(http.usingSecure, http.tls, http.sock,
                                   http.connected) :
          net' = Did("http_send_request", ev)
    /\ UNCHANGED <<crawlvars, hx, page, sink, conn, http, rx>>

\* The crawl engine points the connection at the host of a URL of another
\* site, or back (design, section 4.6 step 4b and the redirect statuses).
HttpFollowHost ==
    /\ CanCall("http_conn")
    /\ \E hst \in Hosts \ {http.host} : http' = [http EXCEPT !.host = hst]
    /\ net' = Did("follow_host", <<>>)
    /\ UNCHANGED <<crawlvars, hx, page, sink, conn, rx>>

ConnOpen ==
    /\ CanCall("connection")
    /\ \E o \in ReconnectOutcomes :
          /\ conn' = open_connection(conn, o)
          /\ net' = [Did("open_connection", open_connection_ev(conn, o))
                       EXCEPT !.conn_inits =
                                  @ + Count(open_connection_ev(conn, o),
                                            "__init_openssl")]
    /\ UNCHANGED <<crawlvars, hx, page, sink, http, rx>>

ConnClose ==
    /\ CanCall("connection")
    /\ conn' = close_connection(conn)
    /\ net' = Did("close_connection", close_connection_ev(conn))
    /\ UNCHANGED <<crawlvars, hx, page, sink, http, rx>>

ConnReconnect ==
    /\ CanCall("connection")
    /\ \E o \in ReconnectOutcomes :
          /\ conn' = reconnect(conn, o)
          /\ net' = Did("reconnect", reconnect_ev(conn, o))
    /\ UNCHANGED <<crawlvars, hx, page, sink, http, rx>>

ConnSwitchToTls ==
    /\ CanCall("connection")
    /\ \E o \in ReconnectOutcomes :
          /\ conn' = conn_switch_to_tls(conn, o)
          /\ net' = [Did("conn_switch_to_tls", conn_switch_to_tls_ev(conn, o))
                       EXCEPT !.conn_inits =
                                  @ + Count(conn_switch_to_tls_ev(conn, o),
                                            "__init_openssl"),
                              !.upgraded = IF o = "connected" THEN "opened" ELSE "failed"]
    /\ UNCHANGED <<crawlvars, hx, page, sink, http, rx>>

ConnSend ==
    /\ CanCall("connection")
    /\ \E ev \in http_send_request(conn.use_tls, conn.ssl, conn.sock,
                                   conn.connected) :
          net' = Did("http_send_request", ev)
    /\ UNCHANGED <<crawlvars, hx, page, sink, http, conn, rx>>

ConnFollowHost ==
    /\ CanCall("connection")
    /\ \E hst \in Hosts \ {conn.host} : conn' = [conn EXCEPT !.host = hst]
    /\ net' = Did("follow_host", <<>>)
    /\ UNCHANGED <<crawlvars, hx, page, sink, http, rx>>

NextConn ==
    \/ HttpConnect
    \/ HttpDisconnect
    \/ HttpReconnect
    \/ HttpUpgrade
    \/ HttpSend
    \/ HttpFollowHost
    \/ ConnOpen
    \/ ConnClose
    \/ ConnReconnect
    \/ ConnSwitchToTls
    \/ ConnSend
    \/ ConnFollowHost

SpecConn == InitConn /\ [][NextConn]_vars

(***************************************************************************)
(* The index and its mutex.  What a call does to the index of a cache, in  *)
(* order: "read" and "write" are accesses to the root or to a node,        *)
(* "lock" and "unlock" are wr_cache_lock and wr_cache_unlock.              *)
(***************************************************************************)
\* The while loop of lines 866-927.
RECURSIVE InsertWalk_ev(_, _, _)
InsertWalk_ev(c, url, nptr) ==
    LET n == c.pool[nptr]
        cmp == strcmp(url, n.url)
    IN  <<"read">>
        \o (IF n.url # "" /\ cmp = 0 THEN <<>>
            ELSE IF cmp < 0
                 THEN IF n.left = 0 THEN <<"read", "write", "write">>
                      ELSE <<"read">> \o InsertWalk_ev(c, url, n.left)
            ELSE IF n.right = 0 THEN <<"read", "write", "write">>
                 ELSE <<"read">> \o InsertWalk_ev(c, url, n.right))

\* __insert_link: the root is tested at line 829 and, when it is set, copied
\* at line 858; the lock is taken at line 831 or at line 864.
__insert_link_ev(fctx, url) ==
    IF fctx.root = 0
    THEN <<"read", "lock", "read", "write", "write", "unlock">>
    ELSE <<"read", "read", "lock">> \o InsertWalk_ev(fctx, url, fctx.root)
         \o <<"unlock">>

\* The loop of lines 789-810.
RECURSIVE DrainingLookup_ev(_, _, _)
DrainingLookup_ev(dctx, url, nptr) ==
    IF nptr = 0 THEN <<>>
    ELSE LET n == dctx.pool[nptr]
             cmp == strcmp(url, n.url)
         IN  <<"read">>
             \o (IF url # "" /\ n.url # "" /\ cmp = 0 THEN <<>>
                 ELSE IF cmp < 0 THEN <<"read">> \o DrainingLookup_ev(dctx, url, n.left)
                 ELSE <<"read">> \o DrainingLookup_ev(dctx, url, n.right))

\* The lookup of __url_acceptable, lines 782-815: the cache pointer of a
\* cache context is set before reap runs, so the lock of line 784 is taken;
\* the unlock is that of line 796 or that of line 814.
__url_acceptable_ev(dctx, url) ==
    <<"lock", "read">> \o DrainingLookup_ev(dctx, url, dctx.root) \o <<"unlock">>

InitIndex ==
    /\ cache1 = EmptyCache(FILLING)
    /\ cache2 = EmptyCache(DRAINING)
    /\ xdomain = FALSE
    /\ http = [host |-> "a", primary_host |-> "a", full_url |-> "", page |-> "",
               usingSecure |-> FALSE, sock |-> 3, connected |-> TRUE, tls |-> FALSE]
    /\ pc = "index"
    /\ fill = 1
    /\ nr_links = 0
    /\ i = 0
    /\ link = 0
    /\ current_depth = 0
    /\ files = {}
    /\ nparsed = 0
    /\ fetched = {}
    /\ cur = NoEvent
    /\ inserted = <<>>
    /\ conn = NoConn
    /\ net = NoNet
    /\ rx = NoRx
    /\ hx = NoHx
    /\ page = NoPage
    /\ sink = NoSink

\* parse_links hands one more URL to __insert_link.
IndexInsert ==
    /\ pc = "index"
    /\ Len(inserted) < MaxInserts
    /\ \E url \in InsertUrls :
          /\ cache1' = __insert_link(cache1, url)
          /\ inserted' = Append(inserted, url)
          /\ net' = [net EXCEPT !.op = "__insert_link",
                                !.ev = __insert_link_ev(cache1, url)]
    /\ UNCHANGED <<cache2, http, xdomain, pc, fill, nr_links, i, link, current_depth,
                   files, nparsed, fetched, cur, conn, rx, hx, page, sink>>

\* __url_acceptable looks a URL up in the index built so far.
IndexLookup ==
    /\ pc = "index"
    /\ \E url \in InsertUrls :
          net' = [net EXCEPT !.op = "__url_acceptable",
                             !.ev = __url_acceptable_ev(cache1, url)]
    /\ UNCHANGED <<crawlvars, hx, page, sink, http, conn, rx>>

NextIndex ==
    \/ IndexInsert
    \/ IndexLookup

SpecIndex == InitIndex /\ [][NextIndex]_vars

(***************************************************************************)
(* __http_do_chunked_recv.  A byte is "CR", "LF", a hexadecimal digit or   *)
(* another character; the read buffer is the sequence of bytes from        *)
(* buf_head to buf_tail, a pointer into it is an index, buf_tail being     *)
(* Len + 1, where the terminating NUL is.                                  *)
(***************************************************************************)
MaxChunks == 2
MaxChunkLen == 2

HTTP_MAX_CHUNK_STR == 20

HexDigits == <<"0", "1", "2", "3", "4", "5", "6", "7", "8", "9">>

PayloadBytes == {"z", "LF"}

\* A response header, ending in HTTP_EOH_SENTINEL.
Header == <<"H", "CR", "LF", "CR", "LF">>

\* The chunked encoding of the payloads pl.
RECURSIVE Chunked(_)
Chunked(pl) ==
    IF pl = <<>> THEN <<"0", "CR", "LF", "CR", "LF">>
    ELSE <<HexDigits[Len(Head(pl)) + 1], "CR", "LF">> \o Head(pl) \o <<"CR", "LF">>
         \o Chunked(Tail(pl))

RECURSIVE Concat(_)
Concat(pl) == IF pl = <<>> THEN <<>> ELSE Head(pl) \o Concat(Tail(pl))

\* SKIP_CRNL: the pointer moved over every CR and LF.
RECURSIVE SKIP_CRNL(_, _)
SKIP_CRNL(b, ptr) ==
    IF ptr <= Len(b) /\ b[ptr] \in {"CR", "LF"} THEN SKIP_CRNL(b, ptr + 1) ELSE ptr

\* buf_collapse (buffer.c): range bytes removed at off, the rest moved down.
buf_collapse(b, off, range) ==
    SubSeq(b, 1, off - 1) \o SubSeq(b, off + range, Len(b))

\* memchr(ptr, 0x0d, n) as far as the buffer holds data: the first CR among
\* the n bytes from ptr, 0 when there is none before buf_tail.
memchrCR(b, ptr, n) ==
    LET found == {k \in ptr..(ptr + n - 1) : k <= Len(b) /\ b[k] = "CR"}
    IN  IF found = {} THEN 0 ELSE CHOOSE k \in found : \A j \in found : k <= j

HexVal(d) == (CHOOSE n \in 1..Len(HexDigits) : HexDigits[n] = d) - 1

\* strtoul(tmp, NULL, 16): white space skipped, then the digits up to the
\* first byte that is none.
RECURSIVE strtoulFrom(_, _)
strtoulFrom(t, acc) ==
    IF t = <<>> \/ Head(t) \notin {HexDigits[k] : k \in DOMAIN HexDigits}
    THEN acc
    ELSE strtoulFrom(Tail(t), acc * 16 + HexVal(Head(t)))

strtoul(t) == strtoulFrom(SubSeq(t, SKIP_CRNL(t, 1), Len(t)), 0)

\* http_recv_response has read up to the end of the header, and possibly
\* further; the server has sent the whole response.
InitChunked ==
    /\ cache1 = EmptyCache(DRAINING)
    /\ cache2 = EmptyCache(FILLING)
    /\ xdomain = FALSE
    /\ http = [host |-> "a", primary_host |-> "a", full_url |-> "", page |-> "",
               usingSecure |-> FALSE, sock |-> 3, connected |-> TRUE, tls |-> FALSE]
    /\ pc = "chunked"
    /\ fill = 1
    /\ nr_links = 0
    /\ i = 0
    /\ link = 0
    /\ current_depth = 0
    /\ files = {}
    /\ nparsed = 0
    /\ fetched = {}
    /\ cur = NoEvent
    /\ inserted = <<>>
    /\ conn = NoConn
    /\ net = NoNet
    /\ \E k \in 1..MaxChunks :
       \E pl \in [1..k -> UNION {[1..n -> PayloadBytes] : n \in 1..MaxChunkLen}] :
       \E got \in Len(Header)..Len(Header \o Chunked(pl)) :
          rx = [NoRx EXCEPT !.buf = SubSeq(Header \o Chunked(pl), 1, got),
                            !.wire = SubSeq(Header \o Chunked(pl), got + 1,
                                            Len(Header \o Chunked(pl))),
                            !.pc = "start",
                            !.payload = pl]
    /\ hx = NoHx
    /\ page = NoPage
    /\ sink = NoSink

\* Lines 249-266: the pointer is put after the sentinel and CR/LF there
\* are removed.
RecvStart ==
    /\ rx.pc = "start"
    /\ LET t == Len(Header) + 1
           q == SKIP_CRNL(rx.buf, t)
       IN  rx' = [rx EXCEPT !.buf = buf_collapse(rx.buf, t, q - t),
                            !.p = t,
                            !.pc = "chunk"]
    /\ UNCHANGED <<crawlvars, hx, page, sink, http, conn, net>>

\* Lines 268-318: the chunk-length line at p.  A memchr that finds no CR in
\* the data and runs past buf_tail reads bytes nothing has set: it returns
\* NULL, or the address of a stale CR.
RecvChunk ==
    /\ rx.pc = "chunk"
    /\ LET e == memchrCR(rx.buf, rx.p, HTTP_MAX_CHUNK_STR)
           size == strtoul(SubSeq(rx.buf, rx.p, e - 1))
           e1 == SKIP_CRNL(rx.buf, e)
           b1 == buf_collapse(rx.buf, rx.p, e1 - rx.p)
           overread == Len(b1) + 1 - rx.p
           p2 == rx.p + size
           p3 == SKIP_CRNL(b1, p2)
       IN  IF e = 0
           THEN \E out \in IF rx.p + HTTP_MAX_CHUNK_STR - 1 <= Len(rx.buf)
                           THEN {"failed"} ELSE {"failed", "undefined"} :
                   rx' = [rx EXCEPT !.pc = out]
           ELSE IF size = 0
           THEN rx' = [rx EXCEPT !.buf = buf_collapse(rx.buf, rx.p - 1,
                                                      Len(rx.buf) + 1 - (rx.p - 1)),
                                 !.p = rx.p - 1,
                                 !.pc = "done"]
           ELSE IF overread >= size
           THEN rx' = [rx EXCEPT !.buf = buf_collapse(b1, p2, p3 - p2),
                                 !.p = p2,
                                 !.save_size = size,
                                 !.chunk_start = rx.p]
           ELSE rx' = [rx EXCEPT !.buf = b1,
                                 !.save_size = size,
                                 !.chunk_size = size - overread,
                                 !.total = 0,
                                 !.chunk_start = rx.p,
                                 !.pc = "read"]
    /\ UNCHANGED <<crawlvars, hx, page, sink, http, conn, net>>

\* Lines 330-347: one read of up to chunk_size bytes that returns data.
RecvReadChunk ==
    /\ rx.pc = "read"
    /\ \E n \in 1..rx.chunk_size :
          /\ n <= Len(rx.wire)
          /\ rx' = [rx EXCEPT !.buf = rx.buf \o SubSeq(rx.wire, 1, n),
                              !.wire = SubSeq(rx.wire, n + 1, Len(rx.wire)),
                              !.total = rx.total + n,
                              !.pc = IF rx.total + n >= rx.chunk_size
                                     THEN "extra" ELSE "read"]
    /\ UNCHANGED <<crawlvars, hx, page, sink, http, conn, net>>

\* Lines 349-379: one more read of up to HTTP_MAX_CHUNK_STR bytes that
\* returns data, then the pointer is put after the chunk and CR/LF there
\* are removed.
RecvReadExtra ==
    /\ rx.pc = "extra"
    /\ \E n \in 1..HTTP_MAX_CHUNK_STR :
          /\ n <= Len(rx.wire)
          /\ LET b == rx.buf \o SubSeq(rx.wire, 1, n)
                 t == rx.chunk_start + rx.save_size
                 q == SKIP_CRNL(b, t)
             IN  rx' = [rx EXCEPT !.buf = buf_collapse(b, t, q - t),
                                  !.wire = SubSeq(rx.wire, n + 1, Len(rx.wire)),
                                  !.p = t,
                                  !.pc = "chunk"]
    /\ UNCHANGED <<crawlvars, hx, page, sink, http, conn, net>>

NextChunked ==
    \/ RecvStart
    \/ RecvChunk
    \/ RecvReadChunk
    \/ RecvReadExtra

SpecChunked == InitChunked /\ [][NextChunked]_vars

(***************************************************************************)
(* One response in the read buffer, as http.c looks at it                  *)
(* (src/src/http/http.c): the header lookup, the choice of the way the     *)
(* body is read, and the header appended to the next request.  A buffer is *)
(* the sequence of its bytes (ASCII); a pointer into it is a 1-based       *)
(* position, buf_head is 1 and buf_tail is Len + 1; the byte at buf_tail   *)
(* is NUL, as the C string routines the code calls on the buffer need.     *)
(***************************************************************************)
HttpBytes ==
    "User-Agent: " :> <<85, 115, 101, 114, 45, 65, 103, 101, 110, 116, 58, 32>> @@
    "Accept: " :> <<65, 99, 99, 101, 112, 116, 58, 32>> @@
    "Host: " :> <<72, 111, 115, 116, 58, 32>> @@
    "Connection: keep-alive" :> <<67, 111, 110, 110, 101, 99, 116, 105, 111, 110, 58, 32, 107, 101, 101, 112, 45, 97, 108, 105, 118, 101>> @@
    " HTTP/" :> <<32, 72, 84, 84, 80, 47>> @@
    "GET" :> <<71, 69, 84>> @@
    "HEAD" :> <<72, 69, 65, 68>> @@
    " " :> <<32>> @@
    ": " :> <<58, 32>> @@
    "1.1" :> <<49, 46, 49>> @@
    "WebReaper" :> <<87, 101, 98, 82, 101, 97, 112, 101, 114>> @@
    "*/*" :> <<42, 47, 42>> @@
    "/x" :> <<47, 120>> @@
    "a" :> <<97>> @@
    "a/" :> <<97, 47>> @@
    "Transfer-Encoding" :> <<84, 114, 97, 110, 115, 102, 101, 114, 45, 69, 110, 99, 111, 100, 105, 110, 103>> @@
    "Content-Length" :> <<67, 111, 110, 116, 101, 110, 116, 45, 76, 101, 110, 103, 116, 104>> @@
    "Set-Cookie" :> <<83, 101, 116, 45, 67, 111, 111, 107, 105, 101>> @@
    "Cookie" :> <<67, 111, 111, 107, 105, 101>> @@
    "chunked" :> <<99, 104, 117, 110, 107, 101, 100>> @@
    "HTTP/1.1 200 OK" :> <<72, 84, 84, 80, 47, 49, 46, 49, 32, 50, 48, 48, 32, 79, 75>> @@
    "Content-Length: 2" :> <<67, 111, 110, 116, 101, 110, 116, 45, 76, 101, 110, 103, 116, 104, 58, 32, 50>> @@
    "Transfer-Encoding: chunked" :> <<84, 114, 97, 110, 115, 102, 101, 114, 45, 69, 110, 99, 111, 100, 105, 110, 103, 58, 32, 99, 104, 117, 110, 107, 101, 100>> @@
    "Transfer-Encoding: gzip" :> <<84, 114, 97, 110, 115, 102, 101, 114, 45, 69, 110, 99, 111, 100, 105, 110, 103, 58, 32, 103, 122, 105, 112>> @@
    "Set-Cookie: k=v" :> <<83, 101, 116, 45, 67, 111, 111, 107, 105, 101, 58, 32, 107, 61, 118>> @@
    "Server: s" :> <<83, 101, 114, 118, 101, 114, 58, 32, 115>> @@
    "k=v" :> <<107, 61, 118>> @@
    "</body" :> <<60, 47, 98, 111, 100, 121>> @@
    "<body>z</body>" :> <<60, 98, 111, 100, 121, 62, 122, 60, 47, 98, 111, 100, 121, 62>> @@
    "<body>Content-Length: 2\r\n</body>" :> <<60, 98, 111, 100, 121, 62, 67, 111, 110, 116, 101, 110, 116, 45, 76, 101, 110, 103, 116, 104, 58, 32, 50, 13, 10, 60, 47, 98, 111, 100, 121, 62>> @@
    "zz" :> <<122, 122>> @@
    "" :> <<>>

CRLF == <<13, 10>>
HTTP_EOH_SENTINEL == <<13, 10, 13, 10>>

\* Position of the first occurrence of needle in b at or after position from,
\* 0 when there is none: strstr(buf_head + off, needle).
strstrFrom(b, from, needle) ==
    LET at == {k \in from..(Len(b) + 1 - Len(needle)) :
                  SubSeq(b, k, k + Len(needle) - 1) = needle}
    IN  IF at = {} THEN 0 ELSE CHOOSE k \in at : \A j \in at : k <= j

\* What http_fetch_header leaves in hh when it returns NULL.
NotFound == [found |-> FALSE, name |-> <<>>, value |-> <<>>]

\* http_fetch_header(buf, name, hh, whence): the name and value it stores in
\* hh.  Line 708 searches the name from buf_head + whence to the NUL at
\* buf_tail; line 713 finds the sentinel, and no line compares the two.
http_fetch_header(b, name, whence) ==
    LET check_from == whence + 1
        p == strstrFrom(b, check_from, HttpBytes[name])
        hend == strstrFrom(b, check_from, HTTP_EOH_SENTINEL)
        q == memchr(b, p, 58)
        v == IF ByteAt(b, q + 1) # 32 THEN q + 1 ELSE q + 2
        e == memchr(b, v, 13)
    IN  IF p = 0 THEN NotFound
        ELSE IF hend = 0 THEN NotFound
        ELSE IF q = 0 THEN NotFound
        ELSE IF e = 0 THEN NotFound
        ELSE [found |-> TRUE,
              name  |-> IF CmpFrom(HttpBytes["Set-Cookie"], SubSeq(b, p, Len(b)),
                                   1, q - p) = 0
                        THEN HttpBytes["Cookie"]
                        ELSE SubSeq(b, p, q - 1),
              value |-> SubSeq(b, v, e - 1)]

\* The header lines and bodies a server answers with.
HeaderLines == {"Content-Length: 2", "Transfer-Encoding: chunked",
                "Transfer-Encoding: gzip", "Set-Cookie: k=v", "Server: s"}
Bodies == {"", "zz", "<body>z</body>", "<body>Content-Length: 2\r\n</body>"}
MaxHeaderLines == 2

RECURSIVE Lines(_)
Lines(ls) ==
    IF ls = <<>> THEN <<>> ELSE HttpBytes[Head(ls)] \o CRLF \o Lines(Tail(ls))

\* The response head: status line, header lines, empty line.
ResponseHead(ls) == HttpBytes["HTTP/1.1 200 OK"] \o CRLF \o Lines(ls) \o CRLF

HeaderNames == {"Transfer-Encoding", "Content-Length", "Set-Cookie"}

\* __http_read_until_eoh has returned: the head is in the buffer, with as
\* much of the body as its last read took (lines 196-221).
InitHeader ==
    /\ cache1 = EmptyCache(DRAINING)
    /\ cache2 = EmptyCache(FILLING)
    /\ xdomain = FALSE
    /\ http = [host |-> "a", primary_host |-> "a", full_url |-> "", page |-> "",
               usingSecure |-> FALSE, sock |-> 3, connected |-> TRUE, tls |-> FALSE]
    /\ pc = "header"
    /\ fill = 1
    /\ nr_links = 0
    /\ i = 0
    /\ link = 0
    /\ current_depth = 0
    /\ files = {}
    /\ nparsed = 0
    /\ fetched = {}
    /\ cur = NoEvent
    /\ inserted = <<>>
    /\ conn = NoConn
    /\ net = NoNet
    /\ rx = NoRx
    /\ page = NoPage
    /\ sink = NoSink
    /\ \E n \in 0..MaxHeaderLines : \E ls \in [1..n -> HeaderLines] :
       \E body \in Bodies :
       \E got \in {Len(ResponseHead(ls)), Len(ResponseHead(ls) \o HttpBytes[body])} :
          hx = [NoHx EXCEPT !.buf = SubSeq(ResponseHead(ls) \o HttpBytes[body], 1, got),
                            !.wire = SubSeq(ResponseHead(ls) \o HttpBytes[body], got + 1,
                                            Len(ResponseHead(ls) \o HttpBytes[body])),
                            !.lines = ls,
                            !.pc = "start"]

\* A caller looks a header up in the buffer (lines 418 and 430 do, with
\* whence 0).
FetchHeader ==
    /\ hx.pc \in {"start", "received"}
    /\ \E name \in HeaderNames : \E whence \in {0, Len(HttpBytes["HTTP/1.1 200 OK"])} :
          hx' = [hx EXCEPT !.asked = name, !.whence = whence,
                           !.hh = http_fetch_header(hx.buf, name, whence)]
    /\ UNCHANGED <<crawlvars, page, sink, http, conn, net, rx>>

\* strtoul(value, NULL, 0) of line 432: the number the leading digits of v
\* spell, octal after a leading 0.
RECURSIVE DigitsFrom(_, _, _, _)
DigitsFrom(v, k, base, acc) ==
    IF k <= Len(v) /\ v[k] >= 48 /\ v[k] < 48 + base
    THEN DigitsFrom(v, k + 1, base, acc * base + (v[k] - 48))
    ELSE acc
strtoul0(v) == DigitsFrom(v, 1, IF ByteAt(v, 1) = 48 THEN 8 ELSE 10, 0)

\* http_recv_response after __http_read_until_eoh (lines 416-480): the way
\* the body is read, and the reads.  A read takes bytes the server has sent
\* (hx.wire); a loop that waits for bytes the server does not send does not
\* return: when the wire is empty the peer has closed, every further read
\* returns 0, and the loops go round again on 0 (lines 450-451: continue;
\* lines 474-478: no "</body", goto read_again).  hx.pc is then "blocked".
\* __http_do_chunked_recv is SpecChunked's.
RecvResponse ==
    /\ hx.pc = "start"
    /\ LET b == hx.buf
           p == strstrFrom(b, 1, HTTP_EOH_SENTINEL) + Len(HTTP_EOH_SENTINEL)
           transfer_enc == http_fetch_header(b, "Transfer-Encoding", 0)
           content_len == http_fetch_header(b, "Content-Length", 0)
           clen == strtoul0(content_len.value)
           overread == (Len(b) + 1) - p
           ends == {n \in 1..Len(hx.wire) :
                       strstrFrom(b \o SubSeq(hx.wire, 1, n), 1, HttpBytes["</body"]) # 0}
       IN  IF transfer_enc.found
           THEN IF CmpFrom(HttpBytes["chunked"], transfer_enc.value, 1,
                           Len(transfer_enc.value)) = 0
                THEN hx' = [hx EXCEPT !.mode = "chunked", !.pc = "received",
                                      !.ev = <<"derive p", "fetch", "save offset", "read",
                                               "read", "derive p", "use p">>]
                ELSE hx' = [hx EXCEPT !.mode = "nothing", !.pc = "received",
                                      !.ev = <<"derive p", "fetch">>]
           ELSE IF content_len.found
           THEN IF overread >= clen
                THEN hx' = [hx EXCEPT !.mode = "length", !.pc = "received",
                                      !.ev = <<"derive p", "fetch", "fetch", "use p">>]
                ELSE IF Len(hx.wire) >= clen - overread
                THEN hx' = [hx EXCEPT
                              !.mode = "length", !.pc = "received",
                              !.buf = b \o SubSeq(hx.wire, 1, clen - overread),
                              !.wire = SubSeq(hx.wire, clen - overread + 1, Len(hx.wire)),
                              !.ev = <<"derive p", "fetch", "fetch", "use p", "read">>]
                ELSE hx' = [hx EXCEPT !.mode = "length", !.pc = "blocked",
                                      !.buf = b \o hx.wire, !.wire = <<>>,
                                      !.ev = <<"derive p", "fetch", "fetch", "use p", "read">>]
           ELSE IF ends = {}
                THEN hx' = [hx EXCEPT !.mode = "until_body", !.pc = "blocked",
                                      !.buf = b \o hx.wire, !.wire = <<>>,
                                      !.ev = <<"derive p", "fetch", "fetch", "read",
                                               "derive p">>]
                ELSE \E n \in ends :
                     hx' = [hx EXCEPT !.mode = "until_body", !.pc = "received",
                                      !.buf = b \o SubSeq(hx.wire, 1, n),
                                      !.wire = SubSeq(hx.wire, n + 1, Len(hx.wire)),
                                      !.ev = <<"derive p", "fetch", "fetch", "read",
                                               "derive p">>]
    /\ UNCHANGED <<crawlvars, page, sink, http, conn, net, rx>>

\* http_build_request_header(conn, http_verb, target): the bytes it appends
\* to the empty write buffer (lines 105-143); the host loses a trailing '/'.
http_build_request_header(host, http_verb, target) ==
    LET h == HttpBytes[host]
        tbuf == IF h # <<>> /\ h[Len(h)] = 47 THEN SubSeq(h, 1, Len(h) - 1) ELSE h
    IN  HttpBytes[http_verb] \o HttpBytes[" "] \o HttpBytes[target]
           \o HttpBytes[" HTTP/"] \o HttpBytes["1.1"] \o CRLF
           \o HttpBytes["User-Agent: "] \o HttpBytes["WebReaper"] \o CRLF
           \o HttpBytes["Accept: "] \o HttpBytes["*/*"] \o CRLF
           \o HttpBytes["Host: "] \o tbuf \o CRLF
           \o HttpBytes["Connection: keep-alive"] \o HTTP_EOH_SENTINEL

\* buf_shift(buf, off, count): count bytes are inserted at offset off, the
\* bytes from off on move right; the inserted bytes hold gap until written.
buf_shift(b, off, count, gap) ==
    SubSeq(b, 1, off) \o [k \in 1..count |-> gap] \o SubSeq(b, off + 1, Len(b))

\* What buf_shift does to the allocation: the bytes fit or grow in place
\* ("same"), or realloc moves them, and then the block p points into is
\* freed: the strncpy through p leaves the new block's inserted bytes as
\* they are (zero, or other bytes), or the process dies.
ShiftOutcomes == {"same", "moved_zero", "moved_junk", "crash"}

\* http_append_header(buf, hh): the write buffer afterwards.  p is set at
\* line 770 from the buf_head read at line 769, buf_shift is called at line
\* 791, and line 793 copies the header line to p.
http_append_header(b, hh, o) ==
    LET head == 1
        s == strstrFrom(b, head, HTTP_EOH_SENTINEL)
        p == s + 2
        tmp == hh.name \o HttpBytes[": "] \o hh.value \o CRLF
        gap == IF o = "moved_junk" THEN 120 ELSE 0
        shifted == buf_shift(b, p - head, Len(tmp), gap)
    IN  IF s = 0 THEN b
        ELSE IF o = "same"
        THEN SubSeq(shifted, 1, p - 1) \o tmp
                \o SubSeq(shifted, p + Len(tmp), Len(shifted))
        ELSE shifted

\* The next request on the connection (http_send_request of the http_t
\* layer): the header of the request is built, the cookie of the last
\* response, if it set one, is appended to it, and the buffer is written.
SendRequest ==
    /\ hx.pc = "received"
    /\ \E verb \in {"HEAD", "GET"} : \E host \in {"a", "a/"} : \E o \in ShiftOutcomes :
       LET cookie == http_fetch_header(hx.buf, "Set-Cookie", 0)
           w == http_build_request_header(host, verb, "/x")
       IN  IF cookie.found
           THEN hx' = [hx EXCEPT !.pc = IF o = "crash" THEN "crashed" ELSE "sent",
                                 !.hh = cookie,
                                 !.wbuf = http_append_header(w, cookie, o),
                                 !.ev = <<"derive p", "buf_shift", "use p">>]
           ELSE /\ o = "same"
                /\ hx' = [hx EXCEPT !.pc = "sent", !.hh = cookie, !.wbuf = w,
                                    !.ev = <<>>]
    /\ UNCHANGED <<crawlvars, page, sink, http, conn, net, rx>>

NextHeader == FetchHeader \/ RecvResponse \/ SendRequest

SpecHeader == InitHeader /\ [][NextHeader]_vars

(***************************************************************************)
(* replace_with_local_urls (src/src/webreaper.c, lines 470-618) on a page  *)
(* buffer.  Pointers are addresses: the buffer's bytes lie from page.data  *)
(* (buf_head, which is data) to buf_tail, the allocation ends at buf_end;  *)
(* a buf_shift that has to grow the allocation may move it.  One action is *)
(* one pass of the while loop.                                             *)
(***************************************************************************)
HTTP_URL_MAX == 1024
MaxAttrs == 2

\* The URL-bearing patterns (prefix string, delimiter, prefix length); the
\* table ends with an entry whose delimiter is 0.
url_types ==
    << [string |-> <<104, 114, 101, 102, 61, 34>>, delim |-> 34, len |-> 6],
       [string |-> <<115, 114, 99, 61, 34>>, delim |-> 34, len |-> 5],
       [string |-> <<>>, delim |-> 0, len |-> 0] >>

\* The attribute values of the pages looked at, and a value of HTTP_URL_MAX
\* bytes, which a page has at most once, in its last attribute and after at
\* most one other attribute.
AttrValues == {Bytes[""], Bytes["/x"], Bytes["h"], Bytes["http://a/x"]}
LongAttrs == {<<>>} \cup {<<[type |-> t, value |-> [k \in 1..HTTP_URL_MAX |-> 108]]>> :
                              t \in {1, 2}}

RECURSIVE Render(_)
Render(attrs) ==
    IF attrs = <<>> THEN <<>>
    ELSE url_types[Head(attrs).type].string \o Head(attrs).value
            \o <<url_types[Head(attrs).type].delim>> \o Render(Tail(attrs))

\* make_local_url(http, make_full_url(http, url)): the bytes of path.
LocalPath(h, url) ==
    LET l == make_local_url(make_full_url(h, url))
    IN  Bytes["file://"] \o Bytes["/r"] \o Bytes["/"] \o Bytes[l[1]] \o Bytes[l[2]]

\* The two places realloc puts the page buffer.
Blocks == {1000, 9000}

InitRewrite ==
    /\ cache1 = EmptyCache(DRAINING)
    /\ cache2 = EmptyCache(FILLING)
    /\ xdomain = FALSE
    /\ http = [host |-> "a", primary_host |-> "a", full_url |-> "http://a/x",
               page |-> "/x", usingSecure |-> FALSE, sock |-> 3, connected |-> TRUE,
               tls |-> FALSE]
    /\ pc = "rewrite"
    /\ fill = 1
    /\ nr_links = 0
    /\ i = 0
    /\ link = 0
    /\ current_depth = 0
    /\ files = {}
    /\ nparsed = 0
    /\ fetched = {}
    /\ cur = NoEvent
    /\ inserted = <<>>
    /\ conn = NoConn
    /\ net = NoNet
    /\ rx = NoRx
    /\ hx = NoHx
    /\ sink = NoSink
    /\ \E n \in 0..MaxAttrs :
       \E short \in [1..n -> [type : {1, 2}, value : AttrValues]] :
       \E long \in LongAttrs :
       \E rest \in {<<>>, <<62>>} : \E room \in {0, 64} :
          /\ short \o long # <<>>
          /\ long # <<>> => n <= 1
          /\ page = [buf |-> Render(short \o long) \o rest, pc |-> "loop",
                     data |-> 1000,
                     size |-> Len(Render(short \o long) \o rest) + room,
                     tail |-> 1000 + Len(Render(short \o long) \o rest),
                     savep |-> 1000, url_type_idx |-> 1, attrs |-> short \o long,
                     input |-> Render(short \o long) \o rest]

\* What one pass of the loop computes before it branches (lines 520-554).
buf_head == page.data
buf_tail == page.data + Len(page.buf)
buf_end == page.data + page.size
Idx(a) == a - page.data + 1
url_type == url_types[page.url_type_idx]
scan_p ==
    LET k == strstrFrom(page.buf, Idx(page.savep), url_type.string)
    IN  IF k = 0 THEN 0 ELSE page.data + k - 1
url_start == scan_p + url_type.len
url_end ==
    LET k == memchr(page.buf, Idx(url_start), url_type.delim)
    IN  IF k = 0 THEN 0 ELSE page.data + k - 1
range == url_end - url_start
Matched == scan_p # 0 /\ scan_p < page.tail /\ url_end # 0

\* The test of line 562 on the value at url_start.
IsAbsolute ==
    LET v == SubSeq(page.buf, Idx(url_start), Len(page.buf))
    IN  \/ CmpFrom(Bytes["http://"], v, 1, range) = 0
        \/ CmpFrom(Bytes["https://"], v, 1, range) = 0

\* The assertions of lines 517-518 and, once a value is found, 547-552.
Asserts ==
    /\ buf_tail <= buf_end
    /\ buf_head >= page.data
    /\ Matched => /\ url_start < buf_tail
                  /\ url_end < buf_tail
                  /\ page.savep < buf_tail
                  /\ page.tail = buf_tail

Abort == [page EXCEPT !.pc = "abort"]

\* Lines 522-545: no further occurrence of the pattern, or no delimiter after
\* one: on to the next pattern, from the start of the buffer.
RewriteNextType ==
    /\ page.pc = "loop"
    /\ ~Matched
    /\ page' = IF ~Asserts THEN Abort
               ELSE IF url_types[page.url_type_idx + 1].delim = 0
               THEN [page EXCEPT !.url_type_idx = @ + 1, !.pc = "done"]
               ELSE [page EXCEPT !.url_type_idx = @ + 1, !.savep = buf_head]
    /\ UNCHANGED <<crawlvars, hx, sink, http, conn, net, rx>>

\* Lines 556-572: an empty value, a value the test of line 562 takes for
\* absolute, or one of HTTP_URL_MAX bytes or more is left as it is.
RewriteSkip ==
    /\ page.pc = "loop"
    /\ Matched
    /\ range = 0 \/ IsAbsolute \/ range >= HTTP_URL_MAX
    /\ page' = IF ~Asserts THEN Abort
               ELSE IF range = 0 THEN [page EXCEPT !.savep = @ + 1]
               ELSE [page EXCEPT !.savep = url_end + 1]
    /\ UNCHANGED <<crawlvars, hx, sink, http, conn, net, rx>>

\* restore_pointers (lines 502-508): a pointer is put at its saved offset
\* from the buffer's head as it is after buf_shift.
restore_pointers_Stale(head, off) == page.data + off

restore_pointers(head, off) == head + off

\* Lines 574-616: the value is replaced by the local path.  buf_collapse
\* takes the value out, the offsets of the pointers are saved (url_end's as
\* it was before the collapse), buf_shift makes room for the path, growing
\* the allocation when it has to, the pointers are restored and the path is
\* copied to url_start; the scan goes on after url_end.
RewriteReplace ==
    /\ page.pc = "loop"
    /\ Matched
    /\ ~(range = 0 \/ IsAbsolute \/ range >= HTTP_URL_MAX)
    /\ LET url == Str(SubSeq(page.buf, Idx(url_start), Idx(url_end) - 1))
           path == LocalPath(http, url)
           collapsed == buf_collapse(page.buf, Idx(url_start), range)
           url_start_off == url_start - buf_head
           url_end_off == url_end - buf_head
           shifted == buf_shift(collapsed, url_start_off, Len(path), 0)
           grows == Len(shifted) > page.size
       IN  \E head \in IF grows THEN Blocks ELSE {page.data} :
           LET start == restore_pointers(head, url_start_off)
               end == restore_pointers(head, url_end_off)
               tail == head + Len(shifted)
           IN  page' =
                 IF ~Asserts \/ start - head # url_start_off \/ end - head # url_end_off
                 THEN Abort
                 ELSE [page EXCEPT
                         !.buf = SubSeq(shifted, 1, url_start_off) \o path
                                    \o SubSeq(shifted, url_start_off + Len(path) + 1,
                                              Len(shifted)),
                         !.data = head,
                         !.size = IF grows THEN Len(shifted) ELSE @,
                         !.tail = tail,
                         !.savep = end + 1,
                         !.pc = IF end + 1 >= tail THEN "done" ELSE "loop"]
    /\ UNCHANGED <<crawlvars, hx, sink, http, conn, net, rx>>

NextRewrite == RewriteNextType \/ RewriteSkip \/ RewriteReplace

SpecRewrite == InitRewrite /\ [][NextRewrite]_vars

(***************************************************************************)
(* The teardown of an index at the head of a level (reap, lines 1137-1152; *)
(* lines 1165-1176 are the same for the other cache) step by step, next to *)
(* the status sink, the background task that inspects an index with the    *)
(* index's mutex held.  cache2 is the index being torn down; inserted is   *)
(* what the level before has put into it.                                  *)
(***************************************************************************)
MaxTorn == 2
MaxReads == 2

TornUrls == {"http://a/x", "http://a/y", "http://b/x"}

\* The index __insert_link builds from the URLs us.
RECURSIVE Built(_)
Built(us) ==
    IF us = <<>> THEN EmptyCache(FILLING)
    ELSE __insert_link(Built(SubSeq(us, 1, Len(us) - 1)), us[Len(us)])

\* The nodes in the order deconstruct_btree resets them: the left subtree,
\* the right subtree, the node (lines 366-389).
RECURSIVE deconstruct_order(_, _)
deconstruct_order(root, pool) ==
    IF root = 0 THEN <<>>
    ELSE deconstruct_order(pool[root].left, pool)
            \o deconstruct_order(pool[root].right, pool)
            \o <<root>>

\* reap is at line 1146, about to call deconstruct_btree; the sink is idle.
InitTeardown ==
    /\ cache1 = EmptyCache(DRAINING)
    /\ xdomain = FALSE
    /\ http = [host |-> "a", primary_host |-> "a", full_url |-> "", page |-> "",
               usingSecure |-> FALSE, sock |-> 3, connected |-> TRUE, tls |-> FALSE]
    /\ pc = "deconstruct"
    /\ fill = 1
    /\ nr_links = 0
    /\ i = 0
    /\ link = 0
    /\ current_depth = 0
    /\ files = {}
    /\ nparsed = 0
    /\ fetched = {}
    /\ cur = NoEvent
    /\ conn = NoConn
    /\ net = NoNet
    /\ rx = NoRx
    /\ hx = NoHx
    /\ page = NoPage
    /\ \E n \in 0..MaxTorn : \E us \in [1..n -> TornUrls] :
          /\ inserted = us
          /\ cache2 = Built(us)
          /\ sink = [NoSink EXCEPT !.todo = deconstruct_order(Built(us).root,
                                                              Built(us).pool)]

\* deconstruct_btree resets the links of one more node (lines 387-389).
\* Nothing in lines 1137-1184 or in deconstruct_btree takes the mutex.
ResetNode ==
    /\ pc = "deconstruct"
    /\ sink.todo # <<>>
    /\ cache2' = [cache2 EXCEPT !.pool[Head(sink.todo)].left = 0,
                                !.pool[Head(sink.todo)].right = 0,
                                !.pool[Head(sink.todo)].parent = 0]
    /\ sink' = [sink EXCEPT !.todo = Tail(@)]
    /\ UNCHANGED <<cache1, xdomain, pc, fill, nr_links, i, link, current_depth,
                   files, nparsed, fetched, cur, inserted, http, conn, net, rx,
                   hx, page>>

\* deconstruct_btree has returned: the pool is cleared (lines 1148-1151).
ClearPool ==
    /\ pc = "deconstruct"
    /\ sink.todo = <<>>
    /\ cache2' = LET e == wr_cache_clear_all(cache2)
                 IN  IF e.nr_assigned > 0 THEN [e EXCEPT !.nr_assigned = 0] ELSE e
    /\ pc' = "clear_root"
    /\ UNCHANGED <<cache1, xdomain, fill, nr_links, i, link, current_depth,
                   files, nparsed, fetched, cur, inserted, http, conn, net, rx,
                   hx, page, sink>>

\* cache2.root = NULL (line 1152).
ClearRoot ==
    /\ pc = "clear_root"
    /\ cache2' = [cache2 EXCEPT !.root = 0]
    /\ pc' = "torn_down"
    /\ UNCHANGED <<cache1, xdomain, fill, nr_links, i, link, current_depth,
                   files, nparsed, fetched, cur, inserted, http, conn, net, rx,
                   hx, page, sink>>

\* The status sink takes the mutex of the index.
SinkLock ==
    /\ sink.mutex = "free"
    /\ sink' = [sink EXCEPT !.mutex = "sink"]
    /\ UNCHANGED <<crawlvars, hx, page, http, conn, net, rx>>

\* The status sink, holding the mutex, reads the index.
SinkRead ==
    /\ sink.mutex = "sink"
    /\ Len(sink.seen) < MaxReads
    /\ sink' = [sink EXCEPT !.seen = Append(@, cache2)]
    /\ UNCHANGED <<crawlvars, hx, page, http, conn, net, rx>>

\* The status sink releases the mutex.
SinkUnlock ==
    /\ sink.mutex = "sink"
    /\ sink' = [sink EXCEPT !.mutex = "free", !.seen = <<>>]
    /\ UNCHANGED <<crawlvars, hx, page, http, conn, net, rx>>

NextTeardown ==
    \/ ResetNode
    \/ ClearPool
    \/ ClearRoot
    \/ SinkLock
    \/ SinkRead
    \/ SinkUnlock

SpecTeardown == InitTeardown /\ [][NextTeardown]_vars

(***************************************************************************)
(* What the properties below read off a state.                             *)
(***************************************************************************)
\* The URLs of the index of c, in order: left subtree, node, right subtree.
RECURSIVE InOrder(_, _)
InOrder(c, nptr) ==
    IF nptr = 0 THEN <<>>
    ELSE InOrder(c, c.pool[nptr].left) \o <<c.pool[nptr].url>>
         \o InOrder(c, c.pool[nptr].right)

Range(f) == {f[k] : k \in DOMAIN f}

\* The URLs the index of c reaches, and the URLs of the entries handed out.
IndexUrls(c) == Range(InOrder(c, c.root))

PoolUrls(c) == {c.pool[k].url : k \in 1..c.nr_assigned}

(***************************************************************************)
(* C1.  In every reachable state, the states between the two assignments   *)
(* that flip the roles included, exactly one of cache1 and cache2 is       *)
(* FILLING and the other is DRAINING.                                      *)
(***************************************************************************)
C1_ExactlyOneFilling ==
    \/ cache1.state = FILLING /\ cache2.state = DRAINING
    \/ cache1.state = DRAINING /\ cache2.state = FILLING

(***************************************************************************)
(* C2.  After any sequence of __insert_link calls on an initially empty    *)
(* index, the in-order traversal is strictly ascending by strcmp and holds *)
(* exactly the distinct URLs inserted; a URL already present adds no       *)
(* entry, so the pool holds one entry for each distinct URL.               *)
(***************************************************************************)
C2_InsertSortedDistinct ==
    LET t == InOrder(cache1, cache1.root)
    IN  /\ \A k \in 1..(Len(t) - 1) : strcmp(t[k], t[k + 1]) < 0
        /\ Range(t) = Range(inserted)
        /\ Len(t) = Cardinality(Range(inserted))
        /\ wr_cache_nr_used(cache1) = Cardinality(Range(inserted))

\* A URL was inserted a second time, between two others.
C2_Witness ==
    /\ Len(inserted) = 3
    /\ inserted[1] = inserted[3]
    /\ inserted[1] # inserted[2]
    /\ Len(InOrder(cache1, cache1.root)) = 2

(***************************************************************************)
(* C3.  At every point of a level, no URL stored in the FILLING cache is   *)
(* in the index of the DRAINING cache.                                     *)
(***************************************************************************)
C3_FillingDisjointFromDraining ==
    (PoolUrls(Filling) \cup IndexUrls(Filling)) \cap IndexUrls(Draining) = {}

\* parse_links has been offered two links on a page, kept one, and the
\* draining index holds two URLs.
C3_Witness ==
    /\ pc = "parse"
    /\ nparsed = 2
    /\ wr_cache_nr_used(Filling) = 1
    /\ Cardinality(IndexUrls(Draining)) = 2

(***************************************************************************)
(* C4.  Every URL parse_links inserts into the FILLING cache is shorter    *)
(* than 256 bytes, has no '#' and none of the tokens "javascript:",        *)
(* "data:image", ".exe", ".dll", "cgi-", has no local archive at that      *)
(* moment, and is on the primary host unless ALLOW_XDOMAIN is set.         *)
(***************************************************************************)
C4_Acceptable(u, fs) ==
    /\ strlen(u) < 256
    /\ \A k \in DOMAIN Bytes[u] : Bytes[u][k] # 35
    /\ \A tok \in {"javascript:", "data:image", ".exe", ".dll", "cgi-"} :
          strstr(u, tok) = 0
    /\ make_local_url(u) \notin fs
    /\ http_parse_host(u) = http.primary_host \/ xdomain

C4_InsertedAcceptable ==
    [][pc = "parse" =>
          \A u \in PoolUrls(Filling') \ PoolUrls(Filling) : C4_Acceptable(u, files)]_vars

\* With ALLOW_XDOMAIN set, of two links offered the one to another host was
\* inserted.
C4_Witness ==
    /\ pc = "parse"
    /\ xdomain
    /\ nparsed = 2
    /\ PoolUrls(Filling) = {"http://b/x"}

(***************************************************************************)
(* C5 as claimed.  Over all levels a URL is sent a GET request at most     *)
(* once, whatever the earlier fetch returned: no GET is written for a URL  *)
(* a GET has been written for before.                                      *)
(***************************************************************************)
GetSent == pc = "request" /\ pc' = "switch" /\ cur'.get \in {"ok", "recv_failed"}

C5_GetAtMostOnce == [][GetSent => http'.full_url \notin fetched]_vars

(***************************************************************************)
(* C5 as amended.  No GET request is written for a URL whose local archive *)
(* exists, and an archive once created stays: a URL that was fetched and   *)
(* archived is never fetched again, whatever links later pages contain.    *)
(* (A URL whose fetch left no archive can be fetched again.)               *)
(***************************************************************************)
C5_NoGetOnceArchived ==
    [][/\ GetSent => ~local_archive_exists(files, http'.full_url)
       /\ files \subseteq files']_vars

\* A URL that was fetched and archived came up again and was answered with
\* HTTP_ALREADY_EXISTS, no GET written.
C5_Witness ==
    /\ pc = "switch"
    /\ cur.status_code = HTTP_ALREADY_EXISTS
    /\ cur.get = "none"
    /\ http.full_url \in fetched
    /\ local_archive_exists(files, http.full_url)

(***************************************************************************)
(* C6.  A response with status 301, 302 or 303 is followed to its Location *)
(* and the crawl continues: a redirect status never ends reap in failure.  *)
(***************************************************************************)
C6_RedirectDoesNotAbort ==
    ~(/\ pc = "failed"
      /\ cur.status_code \in {HTTP_MOVED_PERMANENTLY, HTTP_FOUND, HTTP_SEE_OTHER})

(***************************************************************************)
(* C7 as claimed.  For a status 400, 403, 405, 500, 502, 503 or 504 the    *)
(* engine leaves both caches as they are, creates no file, and when it     *)
(* moves to the next URL exactly one reconnect was attempted for this one  *)
(* and neither extraction nor archival took place.                         *)
(***************************************************************************)
C7Statuses == {400, 403, 405, 500, 502, 503, 504}

C7Handling == cur.status_code \in C7Statuses /\ pc \in {"switch", "reconnect", "next"}

C7_ExactlyOneReconnect ==
    [][C7Handling =>
          /\ cache1' = cache1 /\ cache2' = cache2
          /\ files' = files
          /\ pc = "next" =>
                /\ cur.reconnects = 1
                /\ ~cur.parsed /\ cur.archive = "none"
                /\ link' = link + 1]_vars

(***************************************************************************)
(* C7 as amended.  For a status 400, 403, 405, 500, 502, 503 or 504 the    *)
(* handling of the status attempts exactly one reconnect (on top of the    *)
(* one do_request makes when the HEAD response closed the connection),     *)
(* performs neither extraction nor archival, leaves the URLs and the index *)
(* of both caches unchanged (only the entry's request count goes up), and  *)
(* proceeds to the next URL of the draining cache.                         *)
(***************************************************************************)
NoRequests(p) == [k \in DOMAIN p |-> [p[k] EXCEPT !.nr_requests = 0]]

SameLinks(c, d) ==
    /\ d.state = c.state /\ d.root = c.root /\ d.nr_assigned = c.nr_assigned
    /\ NoRequests(d.pool) = NoRequests(c.pool)

C7_ReconnectOnceAndSkip ==
    [][C7Handling =>
          /\ SameLinks(cache1, cache1') /\ SameLinks(cache2, cache2')
          /\ files' = files
          /\ pc = "switch" =>
                /\ pc' = "reconnect" /\ cur' = cur /\ http' = http
                /\ Draining'.pool[link].nr_requests = Draining.pool[link].nr_requests + 1
          /\ pc = "reconnect" =>
                /\ pc' = "next"
                /\ cur'.reconnects = cur.reconnects + 1
                /\ cache1' = cache1 /\ cache2' = cache2
          /\ pc = "next" =>
                /\ cur.reconnects \in {1, 2}
                /\ ~cur.parsed /\ cur.archive = "none"
                /\ link' = link + 1 /\ i' = i + 1
                /\ pc' = IF i + 1 < nr_links THEN "request" ELSE "flip1"
                /\ cache1' = cache1 /\ cache2' = cache2]_vars

\* A 503 answered the GET that followed a reconnect inside do_request, and
\* the status handling has reconnected once more.
C7_Witness ==
    /\ pc = "next"
    /\ cur.status_code = HTTP_SERVICE_UNAV
    /\ cur.reconnects = 2

(***************************************************************************)
(* C8.  A status code that is neither in the status-policy table nor an    *)
(* internal skip code aborts the crawl: reap goes to its failure return,   *)
(* with the roles of the caches as they were, and from there no URL is     *)
(* requested and nothing else happens.                                     *)
(***************************************************************************)
C8Listed ==
    {200, 404, 410, 301, 302, 303, 400, 403, 405, 500, 502, 503, 504,
     HTTP_OPERATION_TIMEOUT, HTTP_IS_XDOMAIN, HTTP_ALREADY_EXISTS, FL_HTTP_SKIP_LINK}

C8_UnlistedStatusAborts ==
    [][/\ pc = "switch" /\ cur.status_code \notin C8Listed =>
             /\ pc' = "failed"
             /\ cache1'.state = cache1.state /\ cache2'.state = cache2.state
             /\ fetched' = fetched /\ files' = files
       /\ pc = "failed" => UNCHANGED vars]_vars

\* reap has failed on a 401 that answered a GET.
C8_Witness ==
    /\ pc = "failed"
    /\ cur.status_code = HTTP_UNAUTHORISED
    /\ cur.get = "ok"

(***************************************************************************)
(* C9.  A failure to send a request or to receive a response for one URL   *)
(* is not fatal: reap does not end in failure because of it.               *)
(***************************************************************************)
C9_IoFailureNotFatal ==
    \/ cur.head \in {"send_failed", "recv_failed"}
    \/ cur.get \in {"send_failed", "recv_failed"}
    => pc # "failed"

(***************************************************************************)
(* C10.  For a status 200, 404 or 410 archive_page is run, and when it     *)
(* has created the file (or found it) the local file of the URL exists;    *)
(* files are never removed, so it exists for the rest of the crawl.  A     *)
(* file is created by archive_page only, for a URL with one of these       *)
(* statuses only.                                                          *)
(***************************************************************************)
C10_ArchivedOnArchiveStatus ==
    [][/\ pc = "switch" /\ cur.status_code \in {200, 404, 410} =>
             pc' \in {"parse", "archive"}
       /\ pc = "parse" => pc' \in {"parse", "archive"}
       /\ pc = "archive" =>
             /\ cur.status_code \in {200, 404, 410}
             /\ cur'.archive # "none"
             /\ cur'.archive \in {"created", "exists"} =>
                   local_archive_exists(files', http.full_url)
       /\ files \subseteq files'
       /\ files' # files =>
             /\ pc = "archive"
             /\ files' = files \cup {make_local_url(http.full_url)}]_vars

\* A 404 has been archived.
C10_Witness ==
    /\ pc = "next"
    /\ cur.status_code = HTTP_NOT_FOUND
    /\ cur.archive = "created"
    /\ local_archive_exists(files, http.full_url)

\* The labels of reap's control.
Labels ==
    {"level", "request", "switch", "reconnect", "parse", "archive", "next", "flip1",
     "flip2", "depth", "done", "failed"}

\* reap has not returned.
Running == pc \notin {"done", "failed"}

\* Control leaves the statement it is at.
Advance == Running /\ pc' \in Labels

(***************************************************************************)
(* reap is one sequential thread and every request and receive completes:  *)
(* while reap has not returned, control does not stay at one statement for *)
(* ever.  The loops within one label (the links of one page, the empty     *)
(* entries of the pool) are finite.                                        *)
(***************************************************************************)
FairSpec == Spec /\ WF_pc(Advance)

(***************************************************************************)
(* C11.  As long as every request and receive completes, reap returns.     *)
(* The depth counter starts at 0, goes up by one at the end of every level *)
(* and nowhere else, and the level loop ends when the draining cache is    *)
(* empty at the start of a level or the counter has reached the crawl      *)
(* depth after a level.                                                    *)
(***************************************************************************)
C11_ReapReturns ==
    /\ current_depth = 0
    /\ [][/\ current_depth' # current_depth => pc = "flip1"
          /\ pc = "flip1" => current_depth' = current_depth + 1
          /\ pc = "level" /\ wr_cache_nr_used(Draining) = 0 => pc' = "done"
          /\ pc = "level" /\ wr_cache_nr_used(Draining) # 0 => pc' = "request"
          /\ pc = "depth" /\ current_depth >= MaxDepth => pc' = "done"
          /\ pc = "depth" /\ current_depth < MaxDepth => pc' = "level"]_vars
    /\ <>(pc \in {"done", "failed"})

\* reap has returned after as many levels as the crawl depth allows.
C11_Witness ==
    /\ pc = "done"
    /\ current_depth = MaxDepth
    /\ wr_cache_nr_used(Draining) > 0


\* The URLs of the pool of c, in pool order.
UrlSeq(c) == [k \in 1..Len(c.pool) |-> c.pool[k].url]

IsPrefix(s, t) == Len(s) <= Len(t) /\ \A k \in 1..Len(s) : s[k] = t[k]

InLevel == pc \in {"request", "switch", "reconnect", "parse", "archive", "next"}

(***************************************************************************)
(* C13.  Within a level, parse_links runs only while fill is set; fill is  *)
(* cleared when parse_links returns with the filling cache holding at      *)
(* least NR_LINKS_THRESHOLD entries, and it was below the threshold until  *)
(* then.  From there to the end of the level fill stays clear, parse_links *)
(* is not entered, the filling cache keeps its contents, and the remaining *)
(* URLs are still requested and, with a status that is archived, reach     *)
(* archive_page.  The start of the next level sets fill again.             *)
(***************************************************************************)
C13_ThresholdStopsExtraction ==
    /\ [](/\ pc = "parse" => fill = 1
          /\ InLevel /\ fill = 0 => wr_cache_nr_used(Filling) >= NR_LINKS_THRESHOLD
          /\ InLevel /\ fill = 1 /\ pc # "parse" =>
                wr_cache_nr_used(Filling) < NR_LINKS_THRESHOLD)
    /\ [][/\ pc = "parse" /\ pc' # "parse" =>
                fill' = IF wr_cache_nr_used(Filling) >= NR_LINKS_THRESHOLD THEN 0 ELSE 1
          /\ InLevel /\ fill = 0 =>
                /\ fill' = 0
                /\ pc' # "parse"
                /\ UrlSeq(Filling') = UrlSeq(Filling)
                /\ Filling'.root = Filling.root
          /\ fill = 0 /\ pc = "next" /\ link < nr_links => pc' = "request"
          /\ fill = 0 /\ pc = "switch" /\ cur.status_code \in ArchiveStatuses =>
                pc' = "archive"
          /\ pc = "level" => fill' = 1]_vars

\* With fill clear, a page that has a body and a parseable URL is at
\* archive_page without parse_links having run on it.
C13_Witness ==
    /\ pc = "archive"
    /\ fill = 0
    /\ link > 1
    /\ cur.status_code = HTTP_OK
    /\ cur.body
    /\ ~cur.parsed
    /\ __url_parseable(http.full_url)


(***************************************************************************)
(* What one pass of the for loop puts on the wire for its URL, in order,   *)
(* with the sleep before it: SIGINT is blocked, the crawl delay slept and  *)
(* the mask restored (lines 1209-1211), then do_request sends the HEAD     *)
(* (line 1060) and, after a 200 for a URL not yet archived, the GET (line  *)
(* 1084).  A request whose send failed is not on the wire.                 *)
(***************************************************************************)
WireTrace(c) ==
    <<"block", "sleep", "unblock">>
    \o (IF c.head \in {"ok", "recv_failed"} THEN <<"HEAD">> ELSE <<>>)
    \o (IF c.get \in {"ok", "recv_failed"} THEN <<"GET">> ELSE <<>>)

(***************************************************************************)
(* C14.  Between every two consecutive requests on the wire, HEAD or GET,  *)
(* there is a crawl-delay sleep.                                           *)
(***************************************************************************)
C14_SleepBetweenRequests ==
    cur.head # "none" =>
        LET t == WireTrace(cur)
        IN  \A k \in 1..(Len(t) - 1) :
               ~(t[k] \in {"HEAD", "GET"} /\ t[k + 1] \in {"HEAD", "GET"})


\* Every resolution among the events of a call is of the host hst.
ResolvesOnly(ev, hst) ==
    \A k \in 1..Len(ev) : ev[k][1] = "resolve" => ev[k][2] = hst

(***************************************************************************)
(* C15.  After a reconnect, in connection.c and in http_conn.c alike, the  *)
(* host resolved was primary_host and host equals primary_host, whatever   *)
(* host the connection pointed to before.                                  *)
(***************************************************************************)
C15_ReconnectUsesPrimaryHost ==
    /\ net.op = "reconnect" =>
          /\ conn.host = conn.primary_host
          /\ Count(net.ev, "resolve") = 1
          /\ ResolvesOnly(net.ev, conn.primary_host)
    /\ net.op = "http_reconnect" =>
          /\ http.host = http.primary_host
          /\ Count(net.ev, "resolve") = 1
          /\ ResolvesOnly(net.ev, http.primary_host)

\* The states reported during the last call, after the one reported before it.
ReportChain == <<net.before>> \o [k \in 1..Len(Reports(net.ev)) |-> Reports(net.ev)[k][2]]

AllowedChange ==
    {<<"DISCONNECTED", "CONNECTING">>, <<"CONNECTING", "CONNECTED">>,
     <<"CONNECTED", "DISCONNECTED">>, <<"CONNECTING", "DISCONNECTED">>}

(***************************************************************************)
(* C16.  Over any sequence of http_connect, http_disconnect,               *)
(* http_reconnect and HTTP_upgrade_to_TLS, every change of the reported    *)
(* connection state is DISCONNECTED to CONNECTING, CONNECTING to           *)
(* CONNECTED, CONNECTED to DISCONNECTED or CONNECTING to DISCONNECTED.      *)
(***************************************************************************)
C16_ReportedStateCycle ==
    net.impl = "http_conn" =>
        \A k \in 1..(Len(ReportChain) - 1) :
           \/ ReportChain[k] = ReportChain[k + 1]
           \/ <<ReportChain[k], ReportChain[k + 1]>> \in AllowedChange

(***************************************************************************)
(* C17.  In one process __init_openssl runs exactly once: never a second   *)
(* time, and it has run when a TLS session exists; in connection.c and in  *)
(* http_conn.c.                                                            *)
(***************************************************************************)
C17_TlsInitOnce ==
    /\ net.conn_inits <= 1
    /\ net.http_inits <= 1
    /\ conn.ssl => net.conn_inits = 1
    /\ http.tls => net.http_inits = 1

\* The positions of the events named what in ev.
Positions(ev, what) == {k \in 1..Len(ev) : ev[k][1] = what}

\* What an upgrade to TLS leaves: the socket closed before any socket is
\* opened, port 443 only, and after a successful open a session bound to the
\* socket opened last.
UpgradeDone(secure, session, sock, connected) ==
    /\ secure
    /\ Positions(net.ev, "close") # {}
    /\ \A c \in Positions(net.ev, "close"), s \in Positions(net.ev, "socket") : c < s
    /\ \A k \in Positions(net.ev, "connect") : net.ev[k][2] = HTTPS_PORT
    /\ net.upgraded = "opened" <=> connected
    /\ connected =>
          /\ session /\ sock # -1
          /\ Count(net.ev, "SSL_set_fd") = 1
          /\ \A s \in Positions(net.ev, "socket"), b \in Positions(net.ev, "SSL_set_fd") :
                s < b

(***************************************************************************)
(* C18.  upgrade_to_tls (HTTP_upgrade_to_TLS, conn_switch_to_tls) closes   *)
(* the cleartext socket before it opens a new one, sets the secure flag,   *)
(* connects to port 443 and binds a TLS session to the new socket; once it *)
(* has been called the secure flag stays set and no request is written to  *)
(* a socket without TLS, also after a failed re-open and a later           *)
(* reconnect.                                                              *)
(***************************************************************************)
C18_NoCleartextAfterUpgrade ==
    /\ net.op = "HTTP_upgrade_to_TLS" =>
          UpgradeDone(http.usingSecure, http.tls, http.sock, http.connected)
    /\ net.op = "conn_switch_to_tls" =>
          UpgradeDone(conn.use_tls, conn.ssl, conn.sock, conn.connected)
    /\ net.upgraded # "no" =>
          /\ net.impl = "http_conn" => http.usingSecure
          /\ net.impl = "connection" => conn.use_tls
          /\ \A k \in 1..Len(net.ev) : net.ev[k] # <<"write", "socket">>

\* After an upgrade whose re-open failed and a later reconnect, a request is
\* being written through the TLS session.
C18_Witness ==
    /\ net.upgraded = "failed"
    /\ net.op = "http_send_request"
    /\ net.ev = <<<<"write", "tls">>>>


\* The mutex is held just before event k of the call.
Held(ev, k) ==
    Cardinality({j \in 1..(k - 1) : ev[j] = "lock"})
        = Cardinality({j \in 1..(k - 1) : ev[j] = "unlock"}) + 1

(***************************************************************************)
(* C19.  Every read or write of a URL index by __insert_link or by the     *)
(* DRAINING lookup happens with the mutex of that index held; the mutex is *)
(* unlocked exactly once on every return path and never without having     *)
(* been locked.                                                            *)
(***************************************************************************)
C19_IndexAccessUnderMutex ==
    net.op \in {"__insert_link", "__url_acceptable"} =>
        /\ \A k \in 1..Len(net.ev) :
              /\ net.ev[k] \in {"read", "write", "unlock"} => Held(net.ev, k)
              /\ net.ev[k] = "lock" => ~Held(net.ev, k)
        /\ Cardinality({k \in 1..Len(net.ev) : net.ev[k] = "unlock"}) = 1
        /\ ~Held(net.ev, Len(net.ev) + 1)


(***************************************************************************)
(* C20.  For any chunk sizes, payload bytes and split of the response      *)
(* across reads, when __http_do_chunked_recv has returned 0 the buffer     *)
(* holds the header followed by exactly the concatenation of the chunk     *)
(* payloads: no chunk-length line, no trailing CR/LF.                      *)
(***************************************************************************)
C20_ChunkedBodyIsPayloads ==
    rx.pc = "done" => rx.buf = Header \o Concat(rx.payload)

\* The bytes of hx.buf from offset hx.whence up to the end-of-header sentinel.
HeaderPart ==
    LET hend == strstrFrom(hx.buf, hx.whence + 1, HTTP_EOH_SENTINEL)
    IN  IF hend = 0 THEN <<>> ELSE SubSeq(hx.buf, hx.whence + 1, hend + 1)

\* C21: http_fetch_header matches a header name only between offset whence
\* and the end-of-header sentinel: when it returns a header, the name that
\* was asked for occurs in that part of the buffer, and when the name occurs
\* only in the body or after the sentinel it returns not-found.
C21_LookupStaysInHeader ==
    (hx.asked # "" /\ hx.hh.found)
        => strstrFrom(HeaderPart, 1, HttpBytes[hx.asked]) # 0

\* The request header of http_build_request_header with the line Cookie: k=v
\* before the empty line that ends it.
WithCookie(w) ==
    SubSeq(w, 1, Len(w) - 2)
       \o HttpBytes["Cookie"] \o HttpBytes[": "] \o HttpBytes["k=v"] \o CRLF
       \o CRLF

\* C22: when the response carries the header Set-Cookie: k=v, the lookup
\* returns it under the name Cookie with the value k=v, and the next request
\* sent on the connection is the mandatory headers with exactly the line
\* Cookie: k=v added.
C22_CookieEchoed ==
    (hx.pc = "sent" /\ \E k \in DOMAIN hx.lines : hx.lines[k] = "Set-Cookie: k=v")
        => /\ hx.hh = [found |-> TRUE, name |-> HttpBytes["Cookie"],
                       value |-> HttpBytes["k=v"]]
           /\ \E verb \in {"HEAD", "GET"} : \E host \in {"a", "a/"} :
                 hx.wbuf = WithCookie(http_build_request_header(host, verb, "/x"))

\* An attribute value that begins with http:// or https://.
Absolute(v) ==
    \/ Len(v) >= 7 /\ SubSeq(v, 1, 7) = Bytes["http://"]
    \/ Len(v) >= 8 /\ SubSeq(v, 1, 8) = Bytes["https://"]

\* The pages the attributes attrs can have become: a value the rule names is
\* left as it is ("keep") or replaced by its local path ("replace"), every
\* other value is either.
RECURSIVE Pages(_, _)
Pages(attrs, rule) ==
    IF attrs = <<>> THEN {<<>>}
    ELSE LET a == Head(attrs)
             kept == {a.value}
             local == IF a.value # <<>> /\ Len(a.value) < HTTP_URL_MAX
                      THEN {LocalPath(http, Str(a.value))} ELSE {}
             vs == IF rule = "keep" /\ Absolute(a.value) THEN kept
                   ELSE IF rule = "replace" /\ ~Absolute(a.value) /\ local # {}
                   THEN local
                   ELSE kept \cup local
         IN  {url_types[a.type].string \o v \o <<url_types[a.type].delim>> \o r :
                 v \in vs, r \in Pages(Tail(attrs), rule)}

\* What follows the last attribute in the page.
Rest == SubSeq(page.input, Len(Render(page.attrs)) + 1, Len(page.input))

\* C23: replace_with_local_urls leaves every attribute value that already is
\* absolute (http:// or https://) byte for byte as it was, whatever its
\* length.
C23_AbsoluteValuesKept ==
    page.pc = "done" => page.buf \in {x \o Rest : x \in Pages(page.attrs, "keep")}

\* C24: replace_with_local_urls replaces every attribute value that is not
\* empty, not absolute and shorter than 1024 bytes by
\* make_local_url(make_full_url(value)), for every pattern and whatever the
\* lengths; none is left as it was.
C24_RelativeValuesReplaced ==
    page.pc = "done" => page.buf \in {x \o Rest : x \in Pages(page.attrs, "replace")}

\* The pass of the loop that is about to run replaces the value it finds.
Replacing ==
    /\ page.pc = "loop"
    /\ Matched
    /\ ~(range = 0 \/ IsAbsolute \/ range >= HTTP_URL_MAX)

\* C29: a replacement changes the live length of the buffer by exactly the
\* length of the local path minus the length of the old value, leaves every
\* byte before the value and every byte from the closing delimiter on as it
\* was, and keeps data <= head <= tail <= end; no assertion of the function
\* fails in any pass of the loop.
C29_ReplacementFrame ==
    [][/\ page'.pc # "abort"
       /\ Replacing =>
            LET off == url_start - buf_head
                path == LocalPath(http, Str(SubSeq(page.buf, Idx(url_start),
                                                   Idx(url_end) - 1)))
            IN  /\ Len(page'.buf) = Len(page.buf) + Len(path) - range
                /\ SubSeq(page'.buf, 1, off) = SubSeq(page.buf, 1, off)
                /\ SubSeq(page'.buf, off + Len(path) + 1, Len(page'.buf))
                      = SubSeq(page.buf, Idx(url_end), Len(page.buf))
                /\ page'.data + Len(page'.buf) <= page'.data + page'.size
                /\ page'.tail = page'.data + Len(page'.buf)]_vars

\* A page on which a replacement has grown the buffer and moved it.
C29_Witness ==
    page.pc = "done" /\ page.buf # page.input /\ page.data # 1000

\* C25: for every request the crawl engine sends, the HEAD and the GET, also
\* a GET sent after the reconnect that a closed connection brings, the host
\* of the requested URL is the connection's host when the request is sent.
C25_RequestGoesToUrlHost ==
    (pc = "switch" /\ cur.head \in {"ok", "recv_failed"})
        => http_parse_host(http.full_url) = http.host

\* A GET for a URL of another site, sent after do_request has reconnected.
C25_Witness ==
    /\ pc = "switch"
    /\ cur.head = "ok" /\ cur.get = "ok" /\ cur.reconnects = 1
    /\ http.host = "b" /\ http.primary_host = "a"
    /\ http_parse_host(http.full_url) = "b"

\* The number of entries the index of c reaches from its root.
Reachable(c) == Len(InOrder(c, c.root))

\* C26: whatever inserts (rejected duplicates among them) and teardowns have
\* happened, the used count of each cache's pool is the number of entries
\* reachable from that cache's root; and right after the teardown at the
\* start of a level the FILLING cache has no root and a used count of 0, as
\* the assertion of lines 1151 and 1175 says.
C26_PoolCountIsIndexSize ==
    [][/\ \A c \in {cache1, cache2, cache1', cache2'} :
             wr_cache_nr_used(c) = Reachable(c)
       /\ pc = "level" => /\ Filling'.root = 0
                          /\ wr_cache_nr_used(Filling') = 0]_vars

\* After the teardown of a cache that held the seeds, a page's second link
\* has been offered and one entry is in the cache that was torn down.
C26_Witness ==
    /\ current_depth >= 1
    /\ pc = "parse" /\ nparsed >= 2
    /\ wr_cache_nr_used(Filling) = 1 /\ Reachable(Filling) = 1
    /\ wr_cache_nr_used(Draining) >= 1

\* C27: a GET for a URL is sent only after the HEAD for it has returned
\* status 200 and no local archive of the URL exists; when the HEAD's status
\* is not 200, or the archive exists, no GET is sent, and a URL that ends
\* with HTTP_ALREADY_EXISTS is passed over: no links are extracted from it
\* and archive_page is not run.
C27_GetOnlyAfterHead200 ==
    /\ (pc = "switch" /\ cur.get # "none")
          => /\ cur.head = "ok"
             /\ cur.head_status = HTTP_OK
             /\ ~local_archive_exists(files, http.full_url)
    /\ (pc = "switch" /\ cur.head = "ok"
           /\ (cur.head_status # HTTP_OK \/ local_archive_exists(files, http.full_url)))
          => cur.get = "none"
    /\ cur.status_code = HTTP_ALREADY_EXISTS
          => /\ pc \in {"switch", "next"}
             /\ ~cur.parsed
             /\ cur.archive = "none"

\* The HEAD returned 200, the archive exists, and the URL has been passed
\* over without a GET.
C27_Witness ==
    /\ pc = "next"
    /\ cur.status_code = HTTP_ALREADY_EXISTS
    /\ cur.head_status = HTTP_OK
    /\ cur.get = "none"
    /\ local_archive_exists(files, http.full_url)

\* The response head carries the header line l.
HasLine(l) == \E k \in DOMAIN hx.lines : hx.lines[k] = l

\* The bytes of hx.buf after the end-of-header sentinel.
BodyPart ==
    LET hend == strstrFrom(hx.buf, 1, HTTP_EOH_SENTINEL)
    IN  SubSeq(hx.buf, hend + Len(HTTP_EOH_SENTINEL), Len(hx.buf))

\* C28: http_recv_response receives the body as chunked exactly when the
\* head has a Transfer-Encoding header whose value is chunked; otherwise by
\* counting Content-Length bytes when the head has a Content-Length header,
\* whether or not a Transfer-Encoding header with another value is there;
\* otherwise by reading until "</body".  When it succeeds in Content-Length
\* mode, at least Content-Length bytes follow the sentinel in the buffer.
C28_ReceptionMode ==
    hx.mode # "none"
        => /\ hx.mode = IF HasLine("Transfer-Encoding: chunked") THEN "chunked"
                        ELSE IF HasLine("Content-Length: 2") THEN "length"
                        ELSE "until_body"
           /\ (hx.mode = "length" /\ hx.pc # "blocked") => Len(BodyPart) >= 2

\* In the pointer events ev of a function, a use of p comes after a
\* growth-capable operation on the buffer with no derivation of p between
\* the two.
StaleUse(ev) ==
    \E j \in DOMAIN ev : \E k \in DOMAIN ev :
       /\ j < k
       /\ ev[j] \in {"buf_shift", "read"}
       /\ ev[k] = "use p"
       /\ \A m \in (j + 1)..(k - 1) : ev[m] # "derive p"

\* C30: http_append_header, __http_do_chunked_recv and http_recv_response
\* use no pointer into a buffer that they took before a growth-capable
\* operation on it (a shift, a read into it) after that operation, unless
\* they have derived it again from the buffer's base.
C30_NoStalePointer ==
    ~StaleUse(hx.ev)

\* C31: while the status sink holds the mutex of an index, reap changes
\* nothing in that index (no link of a node is reset, the pool is not
\* cleared, the root is not set to NULL), so what the sink reads under the
\* lock is the index as it was built or the index completely torn down, and
\* never a state in between.
C31_NoTeardownUnderSinkLock ==
    sink.mutex = "sink"
        => \A k \in DOMAIN sink.seen :
              /\ sink.seen[k] = cache2
              /\ sink.seen[k] \in {Built(inserted), Teardown(Built(inserted))}

\* The teardown carried out step by step ends where Teardown ends.
TeardownAgrees ==
    pc = "torn_down" => cache2 = Teardown(Built(inserted))

\* C32: a request is written only on a connected connection: when reap is
\* back from do_request, the connection the last request of the URL was
\* written on (the HEAD's, or the GET's after the reconnect of line 1079)
\* has a socket other than -1 and is connected.
C32_SendOnlyWhenConnected ==
    (pc = "switch" /\ cur.head # "none") => CanSend(http)

\* C33: do_request returns 200 only when the GET has been sent and its
\* response received; when sending the GET or receiving its response has
\* failed it returns a failure, and not the status of the HEAD's response
\* or of a partial response.
C33_OkOnlyAfterCompleteGet ==
    pc = "switch"
        => /\ cur.status_code = HTTP_OK => cur.get = "ok"
           /\ cur.get \in {"send_failed", "recv_failed"} => cur.status_code < 0

\* C34: when the peer has closed the connection, so that every read returns
\* 0, http_recv_response returns, with success or with failure: it is not
\* left in a read loop that waits for the rest of the body.
C34_ReceiveReturnsOnClose ==
    (hx.mode # "none" /\ hx.wire = <<>>) => hx.pc \in {"received", "sent", "crashed"}

\* C35: when the response consists of the header block only, as the answer
\* to a HEAD does, and the block carries Content-Length: 2,
\* http_recv_response returns without waiting for the two body bytes.
C35_HeadResponseReturns ==
    (/\ hx.mode # "none"
     /\ HasLine("Content-Length: 2")
     /\ hx.buf = ResponseHead(hx.lines)
     /\ hx.wire = <<>>)
        => hx.pc \in {"received", "sent", "crashed"}

\* C36: in the http_t layer, after any calls of http_connect,
\* http_disconnect, http_reconnect and HTTP_upgrade_to_TLS, whatever fails
\* in them: when the state last reported is DISCONNECTED the stored socket
\* is -1 (no socket of a failed attempt is left open), and when the stored
\* socket is -1 the state last reported is not CONNECTED.
C36_StateMatchesSocket ==
    net.impl = "http_conn"
        => /\ net.state = "DISCONNECTED" => http.sock = -1
           /\ http.sock = -1 => net.state # "CONNECTED"

\* C37: whatever connects, reconnects and upgrades have been called and
\* whatever failed in them, a TLS session is created (SSL_CTX_new, SSL_new)
\* only after __init_openssl has run, in an earlier call or earlier in the
\* same call; in http_conn.c and in connection.c.
C37_TlsInitBeforeSession ==
    LET earlier == net.http_inits + net.conn_inits - Count(net.ev, "__init_openssl")
    IN  \A k \in Positions(net.ev, "SSL_new") :
           \/ earlier > 0
           \/ \E j \in 1..(k - 1) : net.ev[j][1] = "__init_openssl"
====
